---- MODULE Spec2Model ----
(***************************************************************************)
(* A model of the gia client library: the OAuth2 token cache               *)
(* (gia/auth.py), the paginated list call (gia/client.py) and the push     *)
(* orchestration of a disconnected application (gia/templates.py).         *)
(*                                                                         *)
(* The specifications share the module, one per component:                 *)
(*   SpecToken    accesses to one OAuth2ClientCredentials as time passes   *)
(*   SpecPush     building a DisconnectedApplication and pushing it        *)
(*   SpecPage     IGAClient.api_get_paginated against a list endpoint      *)
(*   SpecGateway  one logical call through IGAClient._request              *)
(*   SpecUrl      IGAClient._build_url on a client with some base_url      *)
(*   SpecPayload  to_application_payload on application models             *)
(*   SpecRace     two callers reading access_token of one shared instance  *)
(*   SpecGrant    runs of _fetch_token and the grant request they send     *)
(*   SpecUpsert   pushes of one model in sequence to a storing remote      *)
(*   SpecPageFair SpecPage with every page request carried out             *)
(* Each leaves the variables of the other components at their initial      *)
(* values.                                                                 *)
(***************************************************************************)
EXTENDS Integers, Sequences, FiniteSets, TLC

VARIABLES
    \* ---- gia/auth.py: OAuth2ClientCredentials
    now,            \* the wall clock, time.time(), in whole seconds
    access_token,   \* self._access_token (None or the cached token)
    expires_at,     \* self._expires_at
    lastAccess,     \* what the last read of the access_token property did
    \* ---- gia/templates.py: DisconnectedApplication and its push
    app,            \* the application model (the fields of self)
    lastCall,       \* the last method called on the model and the object
                    \* type id it was given
    pc,             \* where push stands: the remote call it issues next
    upsert,         \* the upsert argument of the push under way
    calls,          \* the calls push made on client.applications, in order
    warned,         \* the warnings push emitted through warnings.warn
    existing,       \* local: what find_application_by_name returned
    app_id,         \* local: the application id
    app_response,   \* local: the response of the create or update call
    object_type_responses,  \* local: object-type id -> response
    upload_responses,       \* local: responses of the uploads
    idx,            \* local: position of the running for loop
    result,         \* the PushResult returned, NoResult before
    error,          \* the error the last call on the model raised, if any
    \* ---- gia/client.py: IGAClient.api_get_paginated
    server,         \* the list endpoint: how many results it holds, the
                    \* totalCount it reports
    page_pc,        \* "idle", "loop" (inside while True), "returned", "raised"
    page_size,      \* local: the effective page size
    max_pages,      \* argument: the page ceiling, 0 for None
    offset,         \* local: the offset of the next page request
    all_results,    \* local: the accumulator
    pages_fetched,  \* local
    requests,       \* the _pagedResultsOffset of every page request sent
    request_sizes,  \* the _pageSize of every page request sent
    page_args,      \* the page_size argument and the _pagedResultsOffset
                    \* of params the call was given, 0 for none
    \* ---- gia/client.py: IGAClient._request, one logical call
    gw_pc,          \* "idle", "sending", "returned", "raised"
    gw_method,      \* the HTTP method of the call
    gw_files,       \* whether the call was given files (a multipart upload)
    gw_token,       \* what self._auth.access_token returned for the call
    gw_headers,     \* the headers handed to the session with the request
    gw_attempts,    \* what every request sent for the call met, in order
    gw_response,    \* the response handed to _handle_response, if any
    gw_outcome,     \* what the call returned or raised
    gw_grants,      \* what the grant requests of the call met, in order
    \* ---- gia/client.py: IGAClient._build_url
    url_origin,     \* the base_url argument the client was constructed with
    base_url,       \* self.base_url
    url_path,       \* the path argument of the last _build_url
    url,            \* what the last _build_url returned, <<>> before
    \* ---- gia/templates.py: to_application_payload
    last_payload,   \* what the last to_application_payload returned, if any
    \* ---- gia/auth.py: two callers reading access_token of one instance
    callers,        \* per caller: where its read stands, the grant response
                    \* it holds, what it returned
    grant_requests, \* the grant requests sent to the token endpoint
    \* ---- gia/auth.py: one run of _fetch_token and the request it sends
    scopes,         \* self.scopes: None, the empty string or a scope string
    grant_data,     \* the form body requests.post was given, NoData before
    grant_response, \* what the grant request met, NoGrant before
    \* ---- gia/templates.py: pushes of one model, one after the other
    pushed          \* the PushResults the earlier pushes returned

tokenVars == <<now, access_token, expires_at, lastAccess>>

modelVars == <<app, lastCall>>

pushVars == <<pc, upsert, calls, warned, existing, app_id, app_response,
              object_type_responses, upload_responses, idx, result, error>>

pageVars == <<server, page_pc, page_size, max_pages, offset, all_results,
              pages_fetched, requests, request_sizes, page_args>>

gatewayVars == <<gw_pc, gw_method, gw_files, gw_token, gw_headers,
                 gw_attempts, gw_response, gw_outcome, gw_grants>>

urlVars == <<url_origin, base_url, url_path, url>>

payloadVars == <<last_payload>>

raceVars == <<callers, grant_requests>>

grantVars == <<scopes, grant_data, grant_response>>

repeatVars == <<pushed>>

vars == <<tokenVars, modelVars, pushVars, pageVars, gatewayVars, urlVars,
          payloadVars, raceVars, grantVars, repeatVars>>

(***************************************************************************)
(* Bounds of the model.                                                    *)
(***************************************************************************)
MaxTime == 45        \* the clock stops advancing here
MaxLatency == 1      \* seconds a grant request may take
MaxTypes == 2        \* object types added to one application model
MaxUploads == 2      \* file uploads registered on one application model
MaxResults == 5      \* results the list endpoint holds
MaxPageSize == 3     \* page sizes a caller asks for
MaxStart == 2        \* _pagedResultsOffset a caller starts from
MaxCeiling == 2      \* max_pages a caller sets
MaxPieces == 4       \* pieces an endpoint path is put together from
MaxSlashes == 2      \* slashes a configured origin ends with
MaxGrantTime == 3    \* the latest time at which a grant response is read
MaxPushes == 2       \* pushes of one model, one after the other

(***************************************************************************)
(* gia/auth.py                                                             *)
(***************************************************************************)
TOKEN_EXPIRY_BUFFER_SECONDS == 30
DefaultExpiresIn == 3600

None == "None"
Tokens == {"tokA", "tokB"}

\* expires_in values the token server reports; has_expires_in is false for
\* a response body without the key.
ExpiresIns == {0, 30, 31, 35}

\* What requests.post / raise_for_status / resp.json() can produce for one
\* grant request.
GrantResponses ==
    [kind : {"ok"}, token : Tokens, expires_in : ExpiresIns, has_expires_in : BOOLEAN]
    \cup [kind : {"transport_error", "http_error", "not_json", "no_access_token"},
          token : {None}, expires_in : {0}, has_expires_in : {FALSE}]

\* No grant request was sent.
NoGrant ==
    [kind |-> "none", token |-> None, expires_in |-> 0,
     has_expires_in |-> FALSE]

\* _is_expired answering True whatever is stored.
IsExpiredAlways(tok, exp, t) == TRUE

\* _is_expired without the buffer of line 39.
IsExpiredNoBuffer(tok, exp, t) ==
    IF tok = None THEN TRUE ELSE t >= exp

\* _is_expired, lines 36-39, on the stored state read at time t.
IsExpired(tok, exp, t) ==
    IF tok = None THEN TRUE
    ELSE t >= exp - TOKEN_EXPIRY_BUFFER_SECONDS

\* body["expires_in"] read without the default of line 59.
ExpiresInOfNoDefault(resp) == resp.expires_in

\* body.get("expires_in", 3600), line 59.
ExpiresInOf(resp) ==
    IF resp.has_expires_in THEN resp.expires_in ELSE DefaultExpiresIn

\* Lines 54-55 left out: what requests raised leaves _fetch_token as it is.
FetchErrorUnwrapped(resp) ==
    CASE resp.kind = "transport_error" -> "ConnectionError"
      [] resp.kind = "http_error" -> "HTTPError"
      [] resp.kind = "not_json" -> "JSONDecodeError"
      [] resp.kind = "no_access_token" -> "KeyError"
      [] OTHER -> "none"

\* The error _fetch_token ends with for a response, "none" when it stores
\* the token: lines 51-58.
FetchError(resp) ==
    CASE resp.kind \in {"transport_error", "http_error"} -> "IGAAuthError"
      [] resp.kind = "not_json" -> "JSONDecodeError"
      [] resp.kind = "no_access_token" -> "KeyError"
      [] OTHER -> "none"

\* "from exc", line 55: the error raised carries what requests raised as
\* its cause.
FetchCause(resp) ==
    IF resp.kind \in {"transport_error", "http_error"} THEN resp.kind
    ELSE "none"

\* self._expires_at after a successful grant whose response is read at time
\* t: line 60.
NewExpiresAt(resp, t) == t + ExpiresInOf(resp)

\* lastAccess: seq flips at every read of the property; grants counts the
\* grant requests that read issued; outcome is "returned" or the error
\* raised; ret is the value returned; granted is the token of the grant
\* response; response is what the grant request met ("none" without a
\* request); cause is the __cause__ of the error raised, "none" without.
NoAccess ==
    [seq |-> FALSE, grants |-> 0, outcome |-> "never", ret |-> None,
     granted |-> None, response |-> "none", cause |-> "none"]

\* __init__, lines 20-27.
TokenInit ==
    /\ now = 0
    /\ access_token = None
    /\ expires_at = 0
    /\ lastAccess = NoAccess

\* Time passes between two accesses.
Tick ==
    /\ now < MaxTime
    /\ now' = now + 1
    /\ UNCHANGED <<access_token, expires_at, lastAccess>>
    /\ UNCHANGED <<modelVars, pushVars, pageVars, gatewayVars, urlVars, payloadVars, raceVars, grantVars, repeatVars>>

\* One read of the access_token property that finds the cache fresh:
\* lines 29-34 with _is_expired false.
AccessCached ==
    /\ ~IsExpired(access_token, expires_at, now)
    /\ lastAccess' = [seq |-> ~lastAccess.seq, grants |-> 0,
                      outcome |-> "returned", ret |-> access_token,
                      granted |-> None, response |-> "none",
                      cause |-> "none"]
    /\ UNCHANGED <<now, access_token, expires_at>>
    /\ UNCHANGED <<modelVars, pushVars, pageVars, gatewayVars, urlVars, payloadVars, raceVars, grantVars, repeatVars>>

\* One read of the access_token property that finds the cache stale and
\* runs _fetch_token: lines 29-34 and 41-61. The grant request takes d
\* seconds; the response decides whether the state is replaced.
AccessFetch ==
    /\ IsExpired(access_token, expires_at, now)
    /\ \E resp \in GrantResponses, d \in 0..MaxLatency :
        LET t == now + d
            err == FetchError(resp)
        IN  /\ t <= MaxTime
            /\ now' = t
            /\ IF err = "none"
               THEN /\ access_token' = resp.token
                    /\ expires_at' = NewExpiresAt(resp, t)
               ELSE UNCHANGED <<access_token, expires_at>>
            /\ lastAccess' =
                 [seq |-> ~lastAccess.seq, grants |-> 1,
                  outcome |-> IF err = "none" THEN "returned" ELSE err,
                  ret |-> IF err = "none" THEN access_token' ELSE None,
                  granted |-> resp.token, response |-> resp.kind,
                  cause |-> FetchCause(resp)]
    /\ UNCHANGED <<modelVars, pushVars, pageVars, gatewayVars, urlVars, payloadVars, raceVars, grantVars, repeatVars>>

(***************************************************************************)
(* gia/templates.py: the application model and its builder methods         *)
(***************************************************************************)
EmptyMap == [k \in {} |-> None]

\* dict.update: the keys of g replace those of f.
Update(f, g) ==
    [k \in DOMAIN f \cup DOMAIN g |-> IF k \in DOMAIN g THEN g[k] ELSE f[k]]

SomeProps == [user_name |-> "string"]

\* The arguments add_object_type is called with; properties=None becomes
\* {} (line 116).
ObjectTypeInputs ==
    {[id |-> "__ACCOUNT__", type |-> "account", properties |-> SomeProps],
     [id |-> "__ACCOUNT__", type |-> "resource", properties |-> EmptyMap],
     [id |-> "Roles", type |-> "resource", properties |-> EmptyMap]}

\* The arguments add_file_upload is called with.
FileUploadInputs ==
    {[file_path |-> "accounts.csv", object_type |-> "__ACCOUNT__"],
     [file_path |-> "roles.csv", object_type |-> "__ACCOUNT__"],
     [file_path |-> "roles.csv", object_type |-> "Roles"]}

\* The arguments the constructor is called with, lines 74-89: a minimal
\* model, one with owners and an icon, one with extra fields that repeat
\* a key of the payload. extra_fields takes the keyword arguments that are
\* not parameters, so it never holds name, description, owner_ids or icon.
CtorArgs ==
    {[name |-> "TestApp", description |-> "", owner_ids |-> <<>>, icon |-> "",
      extra_fields |-> EmptyMap],
     [name |-> "TestApp", description |-> "desc", owner_ids |-> <<"u1">>,
      icon |-> "x", extra_fields |-> EmptyMap],
     [name |-> "TestApp", description |-> "desc", owner_ids |-> <<"u1">>,
      icon |-> "x",
      extra_fields |-> [custom_field |-> "custom_value",
                        ownerIds |-> <<"u2">>]]}

\* __init__, lines 74-89. _object_types is a dict, which keeps insertion
\* order: a sequence of definitions with distinct ids.
NewApplication(args) ==
    [name |-> args.name, description |-> args.description,
     owner_ids |-> args.owner_ids, icon |-> args.icon,
     extra_fields |-> args.extra_fields,
     object_types |-> <<>>, file_uploads |-> <<>>]

\* An error raised locally, by no remote call: an error is the exception
\* class, the position in the call log of the call that raised it (0 when
\* local) and the application id its message names, if any.
LocalError(kind) == [kind |-> kind, call |-> 0, id |-> None]

DefinedIds(a) == {a.object_types[i].id : i \in 1..Len(a.object_types)}

\* ObjectTypeDefinition.to_dict, lines 35-36.
ToDict(ot) == [id |-> ot.id, type |-> ot.type, properties |-> ot.properties]

\* The object_types dict built by lines 171-175.
ObjectTypesPayload(a) ==
    [k \in DefinedIds(a) |->
        ToDict(CHOOSE ot \in {a.object_types[i] : i \in 1..Len(a.object_types)} :
                  ot.id = k)]

\* Line 161 with False for True: the discriminator is not set.
ToApplicationPayloadNotDisconnected(a) ==
    LET base == [name |-> a.name, description |-> a.description,
                 isDisconnected |-> FALSE, datasourceId |-> "disconnected",
                 authoritative |-> FALSE]
        p1 == IF a.owner_ids # <<>>
              THEN Update(base, [ownerIds |-> a.owner_ids]) ELSE base
        p2 == IF a.icon # "" THEN Update(p1, [icon |-> a.icon]) ELSE p1
        p3 == IF DefinedIds(a) # {}
              THEN Update(p2, [objectTypes |-> ObjectTypesPayload(a)]) ELSE p2
    IN  Update(p3, a.extra_fields)

\* Line 177 moved up: the extra fields are written first and the keys of
\* the model over them.
ToApplicationPayloadExtrasFirst(a) ==
    LET base == [name |-> a.name, description |-> a.description,
                 isDisconnected |-> TRUE, datasourceId |-> "disconnected",
                 authoritative |-> FALSE]
        p1 == IF a.owner_ids # <<>>
              THEN Update(base, [ownerIds |-> a.owner_ids]) ELSE base
        p2 == IF a.icon # "" THEN Update(p1, [icon |-> a.icon]) ELSE p1
        p3 == IF DefinedIds(a) # {}
              THEN Update(p2, [objectTypes |-> ObjectTypesPayload(a)]) ELSE p2
    IN  Update(a.extra_fields, p3)

\* Lines 165-175 without their three tests: the keys are always written.
ToApplicationPayloadKeepsEmpty(a) ==
    Update([name |-> a.name, description |-> a.description,
            isDisconnected |-> TRUE, datasourceId |-> "disconnected",
            authoritative |-> FALSE, ownerIds |-> a.owner_ids,
            icon |-> a.icon, objectTypes |-> ObjectTypesPayload(a)],
           a.extra_fields)

\* to_application_payload, lines 157-178.
ToApplicationPayload(a) ==
    LET base == [name |-> a.name, description |-> a.description,
                 isDisconnected |-> TRUE, datasourceId |-> "disconnected",
                 authoritative |-> FALSE]
        p1 == IF a.owner_ids # <<>>
              THEN Update(base, [ownerIds |-> a.owner_ids]) ELSE base
        p2 == IF a.icon # "" THEN Update(p1, [icon |-> a.icon]) ELSE p1
        p3 == IF DefinedIds(a) # {}
              THEN Update(p2, [objectTypes |-> ObjectTypesPayload(a)]) ELSE p2
    IN  Update(p3, a.extra_fields)

\* What lastCall holds: the method called on the model and its object
\* type id argument, None for a method without one.
CallOn(op, id) == [op |-> op, object_type |-> id]

NoCall == CallOn("none", None)

\* Lines 114-115 left out: the definition is stored over the first one.
AddObjectTypeOverwrite(id, args) ==
    /\ id \in DefinedIds(app)
    /\ app' = [app EXCEPT !.object_types =
                  [i \in DOMAIN @ |->
                      IF @[i].id = id
                      THEN [id |-> id, type |-> args.type,
                            properties |-> args.properties]
                      ELSE @[i]]]
    /\ error' = <<>>

\* Lines 134-138 left out: the upload is registered all the same.
AddFileUploadUnchecked(path, ot) ==
    /\ ot \notin DefinedIds(app)
    /\ app' = [app EXCEPT !.file_uploads =
                  Append(@, [file_path |-> path, object_type |-> ot])]
    /\ error' = <<>>

\* add_object_type, lines 95-118.
AddObjectTypeOk(id, args) ==
    /\ id \notin DefinedIds(app)
    /\ Len(app.object_types) < MaxTypes
    /\ app' = [app EXCEPT !.object_types =
                  Append(@, [id |-> id, type |-> args.type,
                             properties |-> args.properties])]
    /\ error' = <<>>

AddObjectTypeDuplicate(id, args) ==
    /\ id \in DefinedIds(app)
    /\ error' = <<LocalError("ValueError")>>
    /\ UNCHANGED app

\* add_file_upload, lines 120-141.
AddFileUploadOk(path, ot) ==
    /\ ot \in DefinedIds(app)
    /\ Len(app.file_uploads) < MaxUploads
    /\ app' = [app EXCEPT !.file_uploads =
                  Append(@, [file_path |-> path, object_type |-> ot])]
    /\ error' = <<>>

AddFileUploadUndefined(path, ot) ==
    /\ ot \notin DefinedIds(app)
    /\ error' = <<LocalError("ValueError")>>
    /\ UNCHANGED app

AddObjectType ==
    /\ pc = "idle"
    /\ \E args \in ObjectTypeInputs :
        /\ AddObjectTypeOk(args.id, args) \/ AddObjectTypeDuplicate(args.id, args)
        /\ lastCall' = CallOn("add_object_type", args.id)
    /\ UNCHANGED <<pc, upsert, calls, warned, existing, app_id, app_response,
                   object_type_responses, upload_responses, idx, result>>
    /\ UNCHANGED <<tokenVars, pageVars, gatewayVars, urlVars, payloadVars, raceVars, grantVars, repeatVars>>

AddFileUpload ==
    /\ pc = "idle"
    /\ \E args \in FileUploadInputs :
        /\ \/ AddFileUploadOk(args.file_path, args.object_type)
           \/ AddFileUploadUndefined(args.file_path, args.object_type)
        /\ lastCall' = CallOn("add_file_upload", args.object_type)
    /\ UNCHANGED <<pc, upsert, calls, warned, existing, app_id, app_response,
                   object_type_responses, upload_responses, idx, result>>
    /\ UNCHANGED <<tokenVars, pageVars, gatewayVars, urlVars, payloadVars, raceVars, grantVars, repeatVars>>

(***************************************************************************)
(* gia/templates.py: push, lines 184-249. One action per call push makes  *)
(* on client.applications, together with the local code that follows the  *)
(* call up to the next one. The remote side is free: every call may        *)
(* succeed or raise. The response of a call is an opaque value, named here *)
(* by the position of the call in the log, so that no two responses are    *)
(* equal. find_application_by_name is one entry of the log, whatever the   *)
(* number of page requests it takes.                                       *)
(***************************************************************************)
AppIds == {"id-1", "id-2"}

\* The errors a call on client.applications raises: IGAClient._request and
\* _handle_response, gia/client.py lines 135-168. An IGAAuthError is an
\* IGAClientError (gia/exceptions.py line 20) and push treats it like one.
RemoteErrors == {"IGANotFoundError", "IGAClientError"}

NoPayload == EmptyMap
NoResp == [id |-> None, call |-> 0]

Resp(id, n) == [id |-> id, call |-> n]

\* One entry of the call log: the method of ApplicationsAPI, its arguments,
\* the error it raised ("none" when it returned) and what it returned.
Call(op, aid, ot, path, payload, err, resp) ==
    [op |-> op, app_id |-> aid, ot_id |-> ot, file_path |-> path,
     payload |-> payload, err |-> err, resp |-> resp]

\* An error raised by the call at position n of the log.
RemoteError(kind, n) == [kind |-> kind, call |-> n, id |-> None]

\* Lines 206-209 raising the error of the builder methods.
ConflictAsValueError(id) == [kind |-> "ValueError", call |-> 0, id |-> id]

\* The conflict error of lines 206-209, raised by push itself.
ConflictError(id) == [kind |-> "IGAClientError", call |-> 0, id |-> id]

\* Lines 244-249 handing over the response of the application call in
\* place of the object-type responses.
PushResultOfApplication(aid, aresp, otr, upr) ==
    [application_id |-> aid, application_response |-> aresp,
     object_type_responses |-> [k \in DOMAIN otr |-> aresp],
     upload_responses |-> upr]

PushResult(aid, aresp, otr, upr) ==
    [application_id |-> aid, application_response |-> aresp,
     object_type_responses |-> otr, upload_responses |-> upr]

\* A push that takes the registered uploads off the model as it starts.
ModelAfterPushDrained(a) == [a EXCEPT !.file_uploads = <<>>]

\* The model as a push leaves it: lines 184-249 read self.name,
\* self._object_types and self._file_uploads, build the payload as a new
\* dict and assign no attribute of self.
ModelAfterPush(a) == a

PushInit ==
    /\ pc = "idle"
    /\ upsert = TRUE
    /\ calls = <<>>
    /\ warned = <<>>
    /\ existing = <<>>
    /\ app_id = None
    /\ app_response = NoResp
    /\ object_type_responses = EmptyMap
    /\ upload_responses = <<>>
    /\ idx = 0
    /\ result = <<>>
    /\ error = <<>>
    /\ lastCall = NoCall

\* Where push goes once the object-type loop is over: line 236.
AfterObjectTypes(a) ==
    IF Len(a.file_uploads) > 0 THEN "upload_file" ELSE "returned"

\* The loop of lines 224-232 left out.
AfterApplicationSkipsTypes(a) == AfterObjectTypes(a)

\* Where push goes once the application is created or updated: line 224.
AfterApplication(a) ==
    IF Len(a.object_types) > 0 THEN "get_object_type" ELSE AfterObjectTypes(a)

\* Where push goes after the i-th object type is reconciled: lines 224, 232.
AfterObjectType(a, i) ==
    IF i < Len(a.object_types) THEN "get_object_type" ELSE AfterObjectTypes(a)

\* The loop position after the i-th object type: the next object type, or
\* the first upload.
NextIndex(a, i) == IF i < Len(a.object_types) THEN i + 1 ELSE 1

\* Where push goes after the i-th upload: lines 236, 242.
AfterUpload(a, i) ==
    IF i < Len(a.file_uploads) THEN "upload_file" ELSE "returned"

\* The statement push continues with, and the PushResult of lines 244-249
\* when that is the return.
Continue(next, i, aid, aresp, otr, upr) ==
    /\ pc' = next
    /\ idx' = IF next = "returned" THEN 0 ELSE i
    /\ result' = IF next = "returned"
                 THEN <<PushResult(aid, aresp, otr, upr)>> ELSE <<>>
    /\ error' = <<>>

\* An exception leaves push: nothing is caught outside lines 225-231.
Raise(e) ==
    /\ pc' = "raised"
    /\ error' = <<e>>
    /\ UNCHANGED <<idx, result>>

\* Lines 204-217 without the lookup: the application is always created.
ResolveBranchAlwaysCreates(found, u) == "create_application"

\* The branch of lines 204-217 without the test of line 205.
ResolveBranchIgnoresUpsert(found, u) ==
    IF found THEN "update_application" ELSE "create_application"

\* Lines 204-217: the branch taken on the result of the lookup.
ResolveBranch(found, u) ==
    IF found
    THEN IF ~u THEN "conflict" ELSE "update_application"
    ELSE "create_application"

\* Lines 210-213 left out.
WarnNothing(w, id, n) == w

\* Lines 210-213: warnings.warn, after n calls were made.
Warn(w, id, n) == Append(w, [id |-> id, after |-> n])

\* Lines 198-214: push is called, looks the application up by name and,
\* when it exists, either raises the conflict or warns.
PushResolve ==
    /\ pc = "idle"
    /\ \E u \in BOOLEAN :
        /\ upsert' = u
        /\ LET n == Len(calls) + 1 IN
           \/ \E k \in RemoteErrors :
                /\ calls' = Append(calls, Call("find_application_by_name", None,
                                               None, None, NoPayload, k, NoResp))
                /\ Raise(RemoteError(k, n))
                /\ UNCHANGED <<existing, app_id, warned>>
           \/ \E found \in {<<>>} \cup {<<[id |-> e]>> : e \in AppIds} :
                LET branch == ResolveBranch(found # <<>>, u) IN
                /\ calls' = Append(calls,
                      Call("find_application_by_name", None, None, None,
                           NoPayload, "none",
                           Resp(IF found = <<>> THEN None ELSE found[1].id, n)))
                /\ existing' = found
                /\ CASE branch = "conflict" ->
                          /\ Raise(ConflictError(found[1].id))
                          /\ UNCHANGED <<warned, app_id>>
                     [] branch = "update_application" ->
                          /\ warned' = Warn(warned, found[1].id, n)
                          /\ app_id' = found[1].id
                          /\ pc' = "update_application"
                          /\ error' = <<>>
                          /\ UNCHANGED <<idx, result>>
                     [] OTHER ->
                          /\ pc' = "create_application"
                          /\ error' = <<>>
                          /\ UNCHANGED <<warned, app_id, idx, result>>
    /\ UNCHANGED <<app_response, object_type_responses, upload_responses>>
    /\ lastCall' = CallOn("push", None)
    /\ app' = ModelAfterPush(app)
    /\ UNCHANGED <<tokenVars, pageVars, gatewayVars, urlVars, payloadVars, raceVars, grantVars, repeatVars>>

\* Line 219 with an id that is not read from the response.
CreatedIdFixed(resp) == "id-1"

\* Line 219: the application id is read from the create response.
CreatedId(resp) == resp.id

\* Lines 218-220: the create call; the id is read from its response.
PushCreateApplication ==
    /\ pc = "create_application"
    /\ LET n == Len(calls) + 1
           payload == ToApplicationPayload(app)
       IN
       \/ \E k \in RemoteErrors :
            /\ calls' = Append(calls, Call("create_application", None, None,
                                           None, payload, k, NoResp))
            /\ Raise(RemoteError(k, n))
            /\ UNCHANGED <<app_id, app_response>>
       \/ \E i \in AppIds :
            LET resp == Resp(i, n) IN
            /\ calls' = Append(calls, Call("create_application", None, None,
                                           None, payload, "none", resp))
            /\ app_response' = resp
            /\ app_id' = CreatedId(resp)
            /\ Continue(AfterApplication(app), 1, CreatedId(resp), resp,
                        object_type_responses, upload_responses)
       \/ \* a response without "id": app_response["id"] raises
          /\ calls' = Append(calls, Call("create_application", None, None,
                                         None, payload, "none", Resp(None, n)))
          /\ app_response' = Resp(None, n)
          /\ Raise(LocalError("KeyError"))
          /\ UNCHANGED app_id
    /\ UNCHANGED <<upsert, warned, existing, object_type_responses,
                   upload_responses>>
    /\ UNCHANGED <<tokenVars, modelVars, pageVars, gatewayVars, urlVars, payloadVars, raceVars, grantVars, repeatVars>>

\* Lines 214-216: the full-replace update of the existing application.
PushUpdateApplication ==
    /\ pc = "update_application"
    /\ LET n == Len(calls) + 1
           payload == ToApplicationPayload(app)
       IN
       \/ \E k \in RemoteErrors :
            /\ calls' = Append(calls, Call("update_application", app_id, None,
                                           None, payload, k, NoResp))
            /\ Raise(RemoteError(k, n))
            /\ UNCHANGED app_response
       \/ /\ calls' = Append(calls, Call("update_application", app_id, None,
                                         None, payload, "none", Resp(app_id, n)))
          /\ app_response' = Resp(app_id, n)
          /\ Continue(AfterApplication(app), 1, app_id, Resp(app_id, n),
                      object_type_responses, upload_responses)
    /\ UNCHANGED <<upsert, warned, existing, app_id, object_type_responses,
                   upload_responses>>
    /\ UNCHANGED <<tokenVars, modelVars, pageVars, gatewayVars, urlVars, payloadVars, raceVars, grantVars, repeatVars>>

\* The error kinds the except clause of line 229 catches.
Caught == {"IGANotFoundError"}

\* Line 226: the get of the object type under reconciliation.
PushGetObjectType ==
    /\ pc = "get_object_type"
    /\ LET n == Len(calls) + 1
           ot == app.object_types[idx]
       IN
       \/ \E k \in RemoteErrors :
            /\ calls' = Append(calls, Call("get_object_type", app_id, ot.id,
                                           None, NoPayload, k, NoResp))
            /\ IF k \in Caught
               THEN /\ pc' = "add_object_type"
                    /\ UNCHANGED <<idx, result, error>>
               ELSE Raise(RemoteError(k, n))
       \/ /\ calls' = Append(calls, Call("get_object_type", app_id, ot.id,
                                         None, NoPayload, "none",
                                         Resp(None, n)))
          /\ pc' = "update_object_type"
          /\ UNCHANGED <<idx, result, error>>
    /\ UNCHANGED <<upsert, warned, existing, app_id, app_response,
                   object_type_responses, upload_responses>>
    /\ UNCHANGED <<tokenVars, modelVars, pageVars, gatewayVars, urlVars, payloadVars, raceVars, grantVars, repeatVars>>

\* Line 227, inside the try of line 225, and line 232.
PushUpdateObjectType ==
    /\ pc = "update_object_type"
    /\ LET n == Len(calls) + 1
           ot == app.object_types[idx]
       IN
       \/ \E k \in RemoteErrors :
            /\ calls' = Append(calls, Call("update_object_type", app_id, ot.id,
                                           None, ToDict(ot), k, NoResp))
            /\ IF k \in Caught
               THEN /\ pc' = "add_object_type"
                    /\ UNCHANGED <<idx, result, error>>
               ELSE Raise(RemoteError(k, n))
            /\ UNCHANGED object_type_responses
       \/ /\ calls' = Append(calls, Call("update_object_type", app_id, ot.id,
                                         None, ToDict(ot), "none",
                                         Resp(None, n)))
          /\ LET otr == Update(object_type_responses, [k \in {ot.id} |-> Resp(None, n)])
             IN  /\ object_type_responses' = otr
                 /\ Continue(AfterObjectType(app, idx), NextIndex(app, idx),
                             app_id, app_response, otr, upload_responses)
    /\ UNCHANGED <<upsert, warned, existing, app_id, app_response,
                   upload_responses>>
    /\ UNCHANGED <<tokenVars, modelVars, pageVars, gatewayVars, urlVars, payloadVars, raceVars, grantVars, repeatVars>>

\* Line 230, inside the except clause, and line 232.
PushAddObjectType ==
    /\ pc = "add_object_type"
    /\ LET n == Len(calls) + 1
           ot == app.object_types[idx]
       IN
       \/ \E k \in RemoteErrors :
            /\ calls' = Append(calls, Call("add_object_type", app_id, ot.id,
                                           None, ToDict(ot), k, NoResp))
            /\ Raise(RemoteError(k, n))
            /\ UNCHANGED object_type_responses
       \/ /\ calls' = Append(calls, Call("add_object_type", app_id, ot.id,
                                         None, ToDict(ot), "none",
                                         Resp(None, n)))
          /\ LET otr == Update(object_type_responses, [k \in {ot.id} |-> Resp(None, n)])
             IN  /\ object_type_responses' = otr
                 /\ Continue(AfterObjectType(app, idx), NextIndex(app, idx),
                             app_id, app_response, otr, upload_responses)
    /\ UNCHANGED <<upsert, warned, existing, app_id, app_response,
                   upload_responses>>
    /\ UNCHANGED <<tokenVars, modelVars, pageVars, gatewayVars, urlVars, payloadVars, raceVars, grantVars, repeatVars>>

\* Line 242 with insert(0, resp) for append(resp).
AccumulateInFront(upr, resp) == <<resp>> \o upr

\* upload_responses after the response resp of an upload: line 242.
Accumulate(upr, resp) == Append(upr, resp)

\* Lines 236-242: one upload. ApplicationsAPI.upload_file opens the file
\* first (gia/applications.py line 135): when that fails no call is sent.
PushUploadFile ==
    /\ pc = "upload_file"
    /\ LET n == Len(calls) + 1
           up == app.file_uploads[idx]
       IN
       \/ /\ Raise(LocalError("OSError"))
          /\ UNCHANGED <<calls, upload_responses>>
       \/ \E k \in RemoteErrors :
            /\ calls' = Append(calls, Call("upload_file", app_id, up.object_type,
                                           up.file_path, NoPayload, k, NoResp))
            /\ Raise(RemoteError(k, n))
            /\ UNCHANGED upload_responses
       \/ /\ calls' = Append(calls, Call("upload_file", app_id, up.object_type,
                                         up.file_path, NoPayload, "none",
                                         Resp(None, n)))
          /\ LET upr == Accumulate(upload_responses, Resp(None, n))
             IN  /\ upload_responses' = upr
                 /\ Continue(AfterUpload(app, idx), idx + 1, app_id,
                             app_response, object_type_responses, upr)
    /\ UNCHANGED <<upsert, warned, existing, app_id, app_response,
                   object_type_responses>>
    /\ UNCHANGED <<tokenVars, modelVars, pageVars, gatewayVars, urlVars, payloadVars, raceVars, grantVars, repeatVars>>

(***************************************************************************)
(* gia/client.py: api_get_paginated, lines 77-114. The list endpoint holds *)
(* the results 1..server.n and answers a request for (offset, page size)   *)
(* with the results at offset+1 .. offset+page size that exist; the        *)
(* totalCount it reports is server.total, or absent from the body.         *)
(***************************************************************************)
DEFAULT_PAGE_SIZE == 50

Servers ==
    [n : 0..MaxResults, total : 0..(MaxResults + 1), has_total : BOOLEAN]

Min(a, b) == IF a < b THEN a ELSE b

\* body["result"] for one page request.
PageOf(srv, off, size) ==
    [i \in 1..(IF off >= srv.n THEN 0 ELSE Min(size, srv.n - off)) |-> off + i]

\* body.get("totalCount", 0), line 105.
TotalOf(srv) == IF srv.has_total THEN srv.total ELSE 0

\* page_size or self.page_size, line 89; the client keeps the default.
EffectivePageSize(arg) == IF arg # 0 THEN arg ELSE DEFAULT_PAGE_SIZE

\* Line 106 without "not results": an empty page does not end the loop.
ExhaustedOnlyByTotal(results, acc, total) == Len(acc) >= total

\* Line 106 with > for >=.
ExhaustedPastTotal(results, acc, total) ==
    Len(results) = 0 \/ Len(acc) > total

\* Lines 106-107: whether the loop is left after a page.
Exhausted(results, acc, total) == Len(results) = 0 \/ Len(acc) >= total

\* Lines 108-110 left out: the ceiling is never looked at.
CeilingIgnored(ceiling, fetched) == FALSE

\* Line 108 with > for >=.
CeilingReachedLate(ceiling, fetched) == ceiling # 0 /\ fetched > ceiling

\* Lines 108-110.
CeilingReached(ceiling, fetched) == ceiling # 0 /\ fetched >= ceiling

\* Line 112 with one result for one page.
NextOffsetByOne(off, size) == off + 1

\* Line 112.
NextOffset(off, size) == off + size

NoPageArgs == [page_size |-> 0, offset |-> 0]

PageInit ==
    /\ server \in Servers
    /\ page_pc = "idle"
    /\ page_size = 0
    /\ max_pages = 0
    /\ offset = 0
    /\ all_results = <<>>
    /\ pages_fetched = 0
    /\ requests = <<>>
    /\ request_sizes = <<>>
    /\ page_args = NoPageArgs

PageIdle ==
    /\ server = [n |-> 0, total |-> 0, has_total |-> TRUE]
    /\ page_pc = "idle"
    /\ page_size = 0
    /\ max_pages = 0
    /\ offset = 0
    /\ all_results = <<>>
    /\ pages_fetched = 0
    /\ requests = <<>>
    /\ request_sizes = <<>>
    /\ page_args = NoPageArgs

\* Lines 89-95: the call, with its page_size and max_pages arguments and
\* the _pagedResultsOffset of params.
PaginateCall ==
    /\ page_pc = "idle"
    /\ \E size \in 0..MaxPageSize, start \in 0..MaxStart, ceiling \in 0..MaxCeiling :
        /\ page_size' = EffectivePageSize(size)
        /\ offset' = start
        /\ max_pages' = ceiling
        /\ page_args' = [page_size |-> size, offset |-> start]
    /\ all_results' = <<>>
    /\ pages_fetched' = 0
    /\ page_pc' = "loop"
    /\ UNCHANGED <<server, requests, request_sizes>>
    /\ UNCHANGED <<tokenVars, modelVars, pushVars, gatewayVars, urlVars, payloadVars, raceVars, grantVars, repeatVars>>

\* Lines 97-112: one iteration of the loop, whose GET succeeds.
FetchPage ==
    /\ page_pc = "loop"
    /\ LET results == PageOf(server, offset, page_size)
           acc == all_results \o results
           fetched == pages_fetched + 1
       IN  /\ requests' = Append(requests, offset)
           /\ request_sizes' = Append(request_sizes, page_size)
           /\ all_results' = acc
           /\ pages_fetched' = fetched
           /\ IF Exhausted(results, acc, TotalOf(server))
                 \/ CeilingReached(max_pages, fetched)
              THEN /\ page_pc' = "returned"
                   /\ UNCHANGED offset
              ELSE /\ page_pc' = "loop"
                   /\ offset' = NextOffset(offset, page_size)
    /\ UNCHANGED <<server, page_size, max_pages, page_args>>
    /\ UNCHANGED <<tokenVars, modelVars, pushVars, gatewayVars, urlVars, payloadVars, raceVars, grantVars, repeatVars>>

\* Lines 98-99: the GET of one iteration raises; the error leaves the call.
FetchPageFails ==
    /\ page_pc = "loop"
    /\ requests' = Append(requests, offset)
    /\ request_sizes' = Append(request_sizes, page_size)
    /\ page_pc' = "raised"
    /\ UNCHANGED <<server, page_size, max_pages, offset, all_results,
                   pages_fetched, page_args>>
    /\ UNCHANGED <<tokenVars, modelVars, pushVars, gatewayVars, urlVars, payloadVars, raceVars, grantVars, repeatVars>>

(***************************************************************************)
(* gia/client.py: one logical call through _request, lines 135-149, sent   *)
(* by the retrying session of _build_session, lines 170-182, and           *)
(* normalised by _handle_response, lines 151-168.                          *)
(***************************************************************************)
MAX_RETRIES == 3
RETRY_STATUS_CODES == {429, 500, 502, 503, 504}

\* api_get, api_post, api_put, api_delete: lines 65-75.
Methods == {"GET", "POST", "PUT", "DELETE"}

\* allowed_methods of the Retry, line 177.
AllowedMethods == {"GET", "POST", "PUT", "DELETE"}

\* Statuses a server answers with.
Statuses == {200, 204, 304, 400, 401, 403, 404, 409} \cup RETRY_STATUS_CODES

\* What a response body can be: nothing; a JSON object with "message" and
\* "details"; one with "error" only; one with neither; JSON that is not an
\* object; text that is not JSON.
Bodies == {"empty", "json_message", "json_error", "json_plain", "json_list",
           "not_json"}

JsonBodies == {"json_message", "json_error", "json_plain", "json_list"}

\* What one request sent by the session meets: a response with a status,
\* or a connection error.
Outcomes ==
    [transport : {"response"}, status : Statuses]
    \cup [transport : {"connection_error"}, status : {0}]

\* What reading self._auth.access_token meets, line 130: the cached token
\* (NoGrant: no request is sent) or the answer to a grant request.
GrantsMet == {NoGrant} \cup GrantResponses

\* The grant request of one _fetch_token sent through the retrying
\* session: a failure is met MAX_RETRIES + 1 times.
GrantAttemptsRetried(grant) ==
    IF grant = NoGrant THEN <<>>
    ELSE IF grant.kind \in {"transport_error", "http_error"}
         THEN [i \in 1..(MAX_RETRIES + 1) |-> grant.kind]
         ELSE <<grant.kind>>

\* The grant requests of one read of access_token: none for a cached
\* token, else the one requests.post of gia/auth.py line 52, which does
\* not go through the session of _build_session.
GrantAttempts(grant) == IF grant = NoGrant THEN <<>> ELSE <<grant.kind>>

\* A status_forcelist that takes in every error status.
IsRetryAnyError(method, o) ==
    \/ o.transport = "connection_error"
    \/ method \in AllowedMethods /\ o.status >= 400

\* Whether the Retry of lines 173-178 asks for the request to be sent
\* again: a connection error, or a status of status_forcelist on a method
\* of allowed_methods.
IsRetry(method, o) ==
    \/ o.transport = "connection_error"
    \/ method \in AllowedMethods /\ o.status \in RETRY_STATUS_CODES

\* A Retry whose total counts the requests, the first one included.
RetriesExhaustedEarly(sent) == sent >= MAX_RETRIES

\* Retry(total=MAX_RETRIES), line 174: total counts the retries, so the
\* Retry is exhausted when a request beyond 1 + total would be needed.
RetriesExhausted(sent) == sent > MAX_RETRIES

\* What a call ends with: kind is "returned" or the exception class;
\* status_code is 0 for None.
NoOutcome ==
    [kind |-> "none", status_code |-> 0, message |-> None, details |-> None,
     value |-> None]

Returned(v) ==
    [kind |-> "returned", status_code |-> 0, message |-> None,
     details |-> None, value |-> v]

Raised(kind, status, message, details) ==
    [kind |-> kind, status_code |-> status, message |-> message,
     details |-> details, value |-> None]

\* Lines 158-160: body.get("message", body.get("error", resp.text)) when
\* resp.json() is an object, resp.text when resp.json() or .get raises.
MessageOf(body) ==
    CASE body = "json_message" -> "message"
      [] body = "json_error" -> "error"
      [] OTHER -> "text"

\* Lines 160-163: body.get("details", []).
DetailsOf(body) == IF body = "json_message" THEN "details" ELSE "empty_list"

\* _handle_response, lines 151-168.
HandleResponse(status, body) ==
    IF status = 404
    THEN Raised("IGANotFoundError", 404, "Resource not found", "empty_list")
    ELSE IF status >= 400
    THEN Raised("IGAClientError", status, MessageOf(body), DetailsOf(body))
    ELSE IF status = 204 \/ body = "empty"
    THEN Returned("empty_mapping")
    ELSE IF body \in JsonBodies
    THEN Returned(body)
    ELSE Raised("JSONDecodeError", 0, None, None)

\* Lines 146-147: a requests.RequestException becomes an IGAClientError
\* without a status code.
RequestFailed == Raised("IGAClientError", 0, "Request failed", "empty_list")

\* Lines 140-141 left out: the headers of _headers go out as they are.
HeadersKeepContentType(tok, files) ==
    [k \in {"Authorization", "Content-Type", "Accept"} |->
        IF k = "Authorization" THEN <<"Bearer", tok>> ELSE "application/json"]

\* _headers, lines 128-133, and the pop of lines 140-141.
HeadersOf(tok, files) ==
    LET h == [k \in {"Authorization", "Content-Type", "Accept"} |->
                 IF k = "Authorization" THEN <<"Bearer", tok>>
                 ELSE "application/json"]
    IN  IF files THEN [k \in DOMAIN h \ {"Content-Type"} |-> h[k]] ELSE h

\* Whether a call of the method can carry files: api_post alone passes
\* **kwargs on, lines 68-69.
FilesFor(m) == IF m = "POST" THEN BOOLEAN ELSE {FALSE}

GatewayIdle ==
    /\ gw_pc = "idle"
    /\ gw_method = None
    /\ gw_files = FALSE
    /\ gw_token = None
    /\ gw_headers = EmptyMap
    /\ gw_attempts = <<>>
    /\ gw_response = <<>>
    /\ gw_outcome = NoOutcome
    /\ gw_grants = <<>>

\* Lines 136-138: the call builds its URL and its headers; reading the
\* access token may raise, and then nothing is sent.
GatewayCall ==
    /\ gw_pc = "idle"
    /\ \E m \in Methods, grant \in GrantsMet, cached \in Tokens :
        LET auth == IF grant = NoGrant THEN "none" ELSE FetchError(grant)
            tok == IF grant = NoGrant THEN cached ELSE grant.token
        IN
        /\ gw_method' = m
        /\ \E files \in FilesFor(m) : gw_files' = files
        /\ gw_grants' = GrantAttempts(grant)
        /\ IF auth = "none"
           THEN /\ gw_pc' = "sending"
                /\ gw_token' = tok
                /\ gw_headers' = HeadersOf(tok, gw_files')
                /\ UNCHANGED gw_outcome
           ELSE /\ gw_pc' = "raised"
                /\ gw_outcome' = Raised(auth, 0, None, None)
                /\ UNCHANGED <<gw_token, gw_headers>>
    /\ UNCHANGED <<gw_attempts, gw_response>>
    /\ UNCHANGED <<tokenVars, modelVars, pushVars, pageVars, urlVars, payloadVars, raceVars, grantVars, repeatVars>>

\* Lines 142-149: the session sends the request once more; what it meets
\* either has it sent again, or exhausts the Retry, or is the response
\* _handle_response normalises.
SendRequest ==
    /\ gw_pc = "sending"
    /\ \E o \in Outcomes, body \in Bodies :
        LET sent == Len(gw_attempts) + 1 IN
        /\ gw_attempts' = Append(gw_attempts, o)
        /\ IF IsRetry(gw_method, o)
           THEN IF RetriesExhausted(sent)
                THEN /\ gw_pc' = "raised"
                     /\ gw_outcome' = RequestFailed
                     /\ UNCHANGED gw_response
                ELSE UNCHANGED <<gw_pc, gw_outcome, gw_response>>
           ELSE LET out == HandleResponse(o.status, body) IN
                /\ gw_response' = <<[status |-> o.status, body |-> body]>>
                /\ gw_outcome' = out
                /\ gw_pc' = IF out.kind = "returned" THEN "returned" ELSE "raised"
    /\ UNCHANGED <<gw_method, gw_files, gw_token, gw_headers, gw_grants>>
    /\ UNCHANGED <<tokenVars, modelVars, pushVars, pageVars, urlVars, payloadVars, raceVars, grantVars, repeatVars>>

(***************************************************************************)
(* gia/client.py: _build_url, lines 120-126, and the base_url of line 44.  *)
(* A string is the sequence of its characters; "o" stands for an origin    *)
(* such as https://tenant.example.com, which holds no slash at its end.    *)
(***************************************************************************)
\* "/iga", lines 124-125.
ApiPrefix == <<"/", "i", "g", "a">>

\* What endpoint paths are put together from.
Pieces == {<<"/">>, <<"i", "g", "a">>, <<"x">>}

RECURSIVE Concats(_)
Concats(n) ==
    IF n = 0 THEN {<<>>}
    ELSE LET shorter == Concats(n - 1)
         IN  shorter \cup {p \o q : p \in shorter, q \in Pieces}

\* The path arguments _build_url is called with.
Paths == Concats(MaxPieces)

\* The base_url arguments a client is constructed with.
Origins == {<<"o">> \o [i \in 1..k |-> "/"] : k \in 0..MaxSlashes}

\* str.startswith.
StartsWith(s, p) == Len(s) >= Len(p) /\ SubSeq(s, 1, Len(p)) = p

\* str.rstrip("/"), line 44: every trailing slash goes.
RECURSIVE RStrip(_)
RStrip(s) ==
    IF s # <<>> /\ s[Len(s)] = "/" THEN RStrip(SubSeq(s, 1, Len(s) - 1))
    ELSE s

\* Lines 122-123.
WithLeadingSlash(path) ==
    IF StartsWith(path, <<"/">>) THEN path ELSE <<"/">> \o path

\* Lines 124-125.
WithApiPrefix(path) ==
    IF StartsWith(path, ApiPrefix) THEN path ELSE ApiPrefix \o path

\* Lines 122-125: the path _build_url joins to the base.
RewritePath(path) == WithApiPrefix(WithLeadingSlash(path))

\* _build_url, lines 120-126.
BuildUrlOf(base, path) == base \o RewritePath(path)

\* __init__, line 44.
UrlInit ==
    /\ url_origin \in Origins
    /\ base_url = RStrip(url_origin)
    /\ url_path = <<>>
    /\ url = <<>>

UrlIdle ==
    /\ url_origin = <<"o">>
    /\ base_url = <<"o">>
    /\ url_path = <<>>
    /\ url = <<>>

\* One call of _build_url.
BuildUrl ==
    /\ \E path \in Paths :
        /\ url_path' = path
        /\ url' = BuildUrlOf(base_url, path)
    /\ UNCHANGED <<url_origin, base_url>>
    /\ UNCHANGED <<tokenVars, modelVars, pushVars, pageVars, gatewayVars, payloadVars, raceVars, grantVars, repeatVars>>

(***************************************************************************)
(* gia/templates.py: to_application_payload applied to the models the      *)
(* constructor and add_object_type build.                                  *)
(***************************************************************************)
\* Keyword arguments beyond the parameters of __init__, line 79.
ExtraFieldsInputs ==
    {EmptyMap,
     [custom_field |-> "custom_value"],
     [ownerIds |-> <<"u2">>],
     [isDisconnected |-> FALSE, objectTypes |-> EmptyMap]}

\* The arguments the constructor is called with, lines 74-89.
PayloadCtorArgs ==
    [name : {"TestApp"}, description : {""}, owner_ids : {<<>>, <<"u1">>},
     icon : {"", "x"}, extra_fields : ExtraFieldsInputs]

PayloadIdle == last_payload = <<>>

\* One call of to_application_payload, lines 157-178.
BuildPayload ==
    /\ pc = "idle"
    /\ last_payload' = <<ToApplicationPayload(app)>>
    /\ UNCHANGED <<tokenVars, modelVars, pushVars, pageVars, gatewayVars, urlVars, raceVars, grantVars, repeatVars>>

(***************************************************************************)
(* gia/auth.py: two concurrent callers read the access_token property of   *)
(* one OAuth2ClientCredentials, lines 29-61. A read is four steps, between *)
(* which the other caller may run: the test of line 32, the grant request  *)
(* of lines 51-57, the stores of lines 58-60, the return of line 34.       *)
(***************************************************************************)
CallerIds == {"c1", "c2"}

\* fetched: whether the read has sent a grant request.
CallerIdle ==
    [pc |-> "idle", resp |-> NoGrant, ret |-> None, fetched |-> FALSE]

\* A test that holds back while another caller is fetching or storing.
RefreshNeededSerialized(tok, exp, t, busy) ==
    IsExpired(tok, exp, t) /\ busy = {}

\* Line 32: the test reads the stored token and the clock; no lock is
\* taken and the callers that are fetching are not looked at.
RefreshNeeded(tok, exp, t, busy) == IsExpired(tok, exp, t)

\* The callers between their test and their store.
Busy == {c \in CallerIds : callers[c].pc \in {"fetching", "storing"}}

RaceIdle ==
    /\ callers = [c \in CallerIds |-> CallerIdle]
    /\ grant_requests = 0

\* The instance the callers share: no token yet, a token gone stale, or a
\* fresh one.
RaceInit ==
    /\ now = 0
    /\ \/ access_token = None /\ expires_at = 0
       \/ access_token = "tokA" /\ expires_at \in {30, 31}
    /\ lastAccess = NoAccess
    /\ RaceIdle

\* Line 32.
RaceCheck(c) ==
    /\ callers[c].pc = "idle"
    /\ callers' = [callers EXCEPT ![c].pc =
          IF RefreshNeeded(access_token, expires_at, now, Busy \ {c})
          THEN "fetching" ELSE "returning"]
    /\ UNCHANGED <<grant_requests, tokenVars>>

\* Lines 51-57: the grant request and its response.
RaceGrant(c) ==
    /\ callers[c].pc = "fetching"
    /\ grant_requests' = grant_requests + 1
    /\ \E resp \in GrantResponses :
        callers' = [callers EXCEPT ![c] =
            IF FetchError(resp) = "none"
            THEN [pc |-> "storing", resp |-> resp, ret |-> None,
                  fetched |-> TRUE]
            ELSE [pc |-> "raised", resp |-> NoGrant, ret |-> None,
                  fetched |-> TRUE]]
    /\ UNCHANGED tokenVars

\* Lines 58-60.
RaceStore(c) ==
    /\ callers[c].pc = "storing"
    /\ access_token' = callers[c].resp.token
    /\ expires_at' = NewExpiresAt(callers[c].resp, now)
    /\ callers' = [callers EXCEPT ![c] =
          [pc |-> "returning", resp |-> NoGrant, ret |-> None,
           fetched |-> TRUE]]
    /\ UNCHANGED <<now, lastAccess, grant_requests>>

\* Line 34.
RaceReturn(c) ==
    /\ callers[c].pc = "returning"
    /\ callers' = [callers EXCEPT ![c] =
          [pc |-> "returned", resp |-> NoGrant, ret |-> access_token,
           fetched |-> callers[c].fetched]]
    /\ UNCHANGED <<grant_requests, tokenVars>>

RaceStep ==
    /\ \E c \in CallerIds :
          RaceCheck(c) \/ RaceGrant(c) \/ RaceStore(c) \/ RaceReturn(c)
    /\ UNCHANGED <<modelVars, pushVars, pageVars, gatewayVars, urlVars, payloadVars, grantVars, repeatVars>>

(***************************************************************************)
(* gia/auth.py: _fetch_token and the grant request                         *)
(***************************************************************************)
\* The client_id and client_secret of the instance, lines 21-22.
ClientId == "cid"
ClientSecret == "csec"

\* The scopes argument of __init__, line 24; None is the default.
ScopesInputs == {None, "", "fr:idm:*"}

\* "if self.scopes", line 47: None and the empty string are false.
Truthy(s) == s \notin {None, ""}

\* data, lines 42-48: the form body of the grant request.
GrantData(cid, csec, sc) ==
    LET base == [k \in {"grant_type", "client_id", "client_secret"} |->
                    CASE k = "grant_type" -> "client_credentials"
                      [] k = "client_id" -> cid
                      [] OTHER -> csec]
    IN  IF Truthy(sc) THEN Update(base, [k \in {"scope"} |-> sc]) ELSE base

NoData == EmptyMap

GrantIdle ==
    /\ scopes = None
    /\ grant_data = NoData
    /\ grant_response = NoGrant

\* __init__, lines 20-27, with the scopes the instance is given.
GrantInit ==
    /\ now = 0
    /\ access_token = None
    /\ expires_at = 0
    /\ lastAccess = NoAccess
    /\ scopes \in ScopesInputs
    /\ grant_data = NoData
    /\ grant_response = NoGrant

\* One run of _fetch_token, lines 41-61; time.time() of line 60 reads t.
FetchToken ==
    \E resp \in GrantResponses, t \in now..MaxGrantTime :
        /\ now' = t
        /\ grant_data' = GrantData(ClientId, ClientSecret, scopes)
        /\ grant_response' = resp
        /\ IF FetchError(resp) = "none"
           THEN /\ access_token' = resp.token
                /\ expires_at' = NewExpiresAt(resp, t)
           ELSE UNCHANGED <<access_token, expires_at>>
        /\ UNCHANGED <<scopes, lastAccess>>
        /\ UNCHANGED <<modelVars, pushVars, pageVars, gatewayVars, urlVars, payloadVars, raceVars, repeatVars>>

(***************************************************************************)
(* gia/templates.py: push called again on the same model, against a remote *)
(* that stores what it is sent. What the remote holds is read off the call *)
(* log: the applications created, the object types added or updated.       *)
(***************************************************************************)
RepeatIdle == pushed = <<>>

Succeeded(log, ops) ==
    {j \in 1..Len(log) : log[j].op \in ops /\ log[j].err = "none"}

\* The ids of the applications the remote holds under the model's name.
StoredApplications(log) ==
    {log[j].resp.id : j \in Succeeded(log, {"create_application"})}

\* The object types the remote holds through the object-type endpoints.
StoredObjectTypes(log) ==
    {log[j].ot_id : j \in Succeeded(log, {"add_object_type", "update_object_type"})}

\* The object types the remote was sent inside an application payload.
SentObjectTypes(log) ==
    UNION {DOMAIN log[j].payload["objectTypes"] :
              j \in {i \in Succeeded(log, {"create_application", "update_application"}) :
                        "objectTypes" \in DOMAIN log[i].payload}}

\* The answer c of the remote to a call made after the calls of log:
\* find_application_by_name (gia/applications.py lines 188-191) gives the
\* stored application, create stores under a new id, get_object_type
\* gives a stored object type and fails with NotFound for one the remote
\* never saw; an object type that came inside an application payload
\* may or may not be served by the object-type endpoint.
Faithful(log, c) ==
    CASE c.op = "find_application_by_name" ->
            /\ c.err = "none"
            /\ IF StoredApplications(log) = {} THEN c.resp.id = None
               ELSE c.resp.id \in StoredApplications(log)
      [] c.op = "create_application" ->
            /\ c.err = "none"
            /\ c.resp.id \in AppIds \ StoredApplications(log)
      [] c.op = "update_application" ->
            c.err = "none" <=> c.app_id \in StoredApplications(log)
      [] c.op = "get_object_type" ->
            \/ c.err = "none" /\ c.ot_id \in StoredObjectTypes(log) \cup SentObjectTypes(log)
            \/ c.err = "IGANotFoundError" /\ c.ot_id \notin StoredObjectTypes(log)
      [] OTHER -> c.err = "none"

\* The step appended a call to the log and the remote answered it as a
\* store does.
FaithfulStep ==
    /\ Len(calls') = Len(calls) + 1
    /\ Faithful(calls, calls'[Len(calls')])

\* push called once more after it returned, line 184: the locals of the
\* new call are fresh, the model and the remote are as the last push left
\* them.
PushAgain ==
    /\ pc = "returned"
    /\ Len(pushed) + 1 < MaxPushes
    /\ pushed' = Append(pushed, result[1])
    /\ pc' = "idle"
    /\ existing' = <<>>
    /\ app_id' = None
    /\ app_response' = NoResp
    /\ object_type_responses' = EmptyMap
    /\ upload_responses' = <<>>
    /\ idx' = 0
    /\ result' = <<>>
    /\ UNCHANGED <<upsert, calls, warned, error>>
    /\ UNCHANGED <<tokenVars, modelVars, pageVars, gatewayVars, urlVars, payloadVars, raceVars, grantVars>>

\* The model is built before its first push.
BuildObjectType == AddObjectType /\ calls = <<>>
BuildFileUpload == AddFileUpload /\ calls = <<>>

\* push(client, upsert=True), step by step, against the storing remote.
UpsertResolve == PushResolve /\ upsert' = TRUE /\ FaithfulStep
UpsertCreateApplication == PushCreateApplication /\ FaithfulStep
UpsertUpdateApplication == PushUpdateApplication /\ FaithfulStep
UpsertGetObjectType == PushGetObjectType /\ FaithfulStep
UpsertUpdateObjectType == PushUpdateObjectType /\ FaithfulStep
UpsertAddObjectType == PushAddObjectType /\ FaithfulStep
UpsertUploadFile == PushUploadFile /\ FaithfulStep

InitPush ==
    /\ \E args \in CtorArgs : app = NewApplication(args)
    /\ PushInit
    /\ TokenInit
    /\ PageIdle
    /\ GatewayIdle
    /\ UrlIdle
    /\ PayloadIdle
    /\ RaceIdle
    /\ GrantIdle
    /\ RepeatIdle

NextPush ==
    \/ AddObjectType
    \/ AddFileUpload
    \/ PushResolve
    \/ PushCreateApplication
    \/ PushUpdateApplication
    \/ PushGetObjectType
    \/ PushUpdateObjectType
    \/ PushAddObjectType
    \/ PushUploadFile

SpecPush == InitPush /\ [][NextPush]_vars

InitToken ==
    /\ TokenInit
    /\ PushInit
    /\ PageIdle
    /\ app = NewApplication(CHOOSE args \in CtorArgs : args.icon = "")
    /\ GatewayIdle
    /\ UrlIdle
    /\ PayloadIdle
    /\ RaceIdle
    /\ GrantIdle
    /\ RepeatIdle

NextToken == Tick \/ AccessCached \/ AccessFetch

SpecToken == InitToken /\ [][NextToken]_vars

InitPage ==
    /\ PageInit
    /\ TokenInit
    /\ PushInit
    /\ app = NewApplication(CHOOSE args \in CtorArgs : args.icon = "")
    /\ GatewayIdle
    /\ UrlIdle
    /\ PayloadIdle
    /\ RaceIdle
    /\ GrantIdle
    /\ RepeatIdle

NextPage == PaginateCall \/ FetchPage \/ FetchPageFails

SpecPage == InitPage /\ [][NextPage]_vars

InitGateway ==
    /\ GatewayIdle
    /\ TokenInit
    /\ PushInit
    /\ PageIdle
    /\ app = NewApplication(CHOOSE args \in CtorArgs : args.icon = "")
    /\ UrlIdle
    /\ PayloadIdle
    /\ RaceIdle
    /\ GrantIdle
    /\ RepeatIdle

NextGateway == GatewayCall \/ SendRequest

SpecGateway == InitGateway /\ [][NextGateway]_vars

InitUrl ==
    /\ UrlInit
    /\ PayloadIdle
    /\ RaceIdle
    /\ GrantIdle
    /\ RepeatIdle
    /\ GatewayIdle
    /\ TokenInit
    /\ PushInit
    /\ PageIdle
    /\ app = NewApplication(CHOOSE args \in CtorArgs : args.icon = "")

NextUrl == BuildUrl

SpecUrl == InitUrl /\ [][NextUrl]_vars

InitPayload ==
    /\ \E args \in PayloadCtorArgs : app = NewApplication(args)
    /\ PayloadIdle
    /\ RaceIdle
    /\ GrantIdle
    /\ RepeatIdle
    /\ PushInit
    /\ TokenInit
    /\ PageIdle
    /\ GatewayIdle
    /\ UrlIdle

NextPayload == AddObjectType \/ BuildPayload

SpecPayload == InitPayload /\ [][NextPayload]_vars

InitRace ==
    /\ RaceInit
    /\ GrantIdle
    /\ RepeatIdle
    /\ PushInit
    /\ PageIdle
    /\ GatewayIdle
    /\ UrlIdle
    /\ PayloadIdle
    /\ app = NewApplication(CHOOSE args \in CtorArgs : args.icon = "")

NextRace == RaceStep

SpecRace == InitRace /\ [][NextRace]_vars

(***************************************************************************)
(* The token cache                                                         *)
(***************************************************************************)
\* A step that is one read of the access_token property.
IsAccess == lastAccess'.seq # lastAccess.seq

\* C1: in single-threaded use, a read of the property made while a token is
\* held and now < expires_at - 30 issues no grant request and returns the
\* cached token, leaving the stored state alone; a read made when no token
\* is held or when now >= expires_at - 30 issues exactly one grant request
\* and, when the grant succeeds, returns the newly granted token, which is
\* then the stored one.
C1_CachedUntilBuffer ==
    [][IsAccess =>
        IF access_token # None /\ now < expires_at - 30
        THEN /\ lastAccess'.grants = 0
             /\ lastAccess'.outcome = "returned"
             /\ lastAccess'.ret = access_token
             /\ UNCHANGED <<access_token, expires_at>>
        ELSE /\ lastAccess'.grants = 1
             /\ lastAccess'.outcome = "returned" =>
                   /\ lastAccess'.ret = lastAccess'.granted
                   /\ access_token' = lastAccess'.granted]_vars

\* A cached token was returned one second before the boundary, without a
\* grant request.
C1_Witness ==
    /\ lastAccess.outcome = "returned"
    /\ lastAccess.grants = 0
    /\ access_token # None
    /\ now = expires_at - 31

\* C2: whenever the accessor returns, the stored token is valid under the
\* expiry policy at that moment: now < expires_at - 30.
C2_ReturnedTokenNotStale ==
    [][(IsAccess /\ lastAccess'.outcome = "returned") =>
          now' < expires_at' - 30]_vars

(***************************************************************************)
(* Push                                                                    *)
(***************************************************************************)
CallsOf(ops) == {i \in 1..Len(calls) : calls[i].op \in ops}

NumCalls(op) == Cardinality(CallsOf({op}))

ObjectTypeOps == {"get_object_type", "update_object_type", "add_object_type"}

\* The lookup returned: with no application of that name, or with one.
ResolvedNoMatch ==
    Len(calls) >= 1 /\ calls[1].err = "none" /\ calls[1].resp.id = None

ResolvedMatch ==
    Len(calls) >= 1 /\ calls[1].err = "none" /\ calls[1].resp.id # None

\* C3: when the lookup finds no application of the model's name, push
\* issues exactly one create call, with the full payload, and no
\* update-application call, whatever upsert is; every later object-type and
\* upload call and PushResult.application_id carry the id of the create
\* response.
C3_CreateWhenAbsent ==
    ResolvedNoMatch =>
        /\ NumCalls("update_application") = 0
        /\ NumCalls("create_application") <= 1
        /\ pc # "create_application" =>
              /\ NumCalls("create_application") = 1
              /\ calls[2].op = "create_application"
              /\ calls[2].payload = ToApplicationPayload(app)
        /\ \A i \in CallsOf(ObjectTypeOps \cup {"upload_file"}) :
              /\ calls[2].err = "none"
              /\ calls[i].app_id = calls[2].resp.id
        /\ pc = "returned" => result[1].application_id = calls[2].resp.id

\* A push with upsert disallowed created the application as "id-2",
\* reconciled an object type, uploaded a file and returned.
C3_Witness ==
    /\ ResolvedNoMatch
    /\ ~upsert
    /\ pc = "returned"
    /\ calls[2].resp.id = "id-2"
    /\ NumCalls("upload_file") >= 1
    /\ CallsOf(ObjectTypeOps) # {}

\* C4: when the lookup finds the application and upsert is false, push
\* raises at once a conflict error that names the existing id; it makes no
\* further call (no create, no update, no object-type call, no upload),
\* emits no warning and returns no PushResult.
C4_ConflictWithoutMutation ==
    (ResolvedMatch /\ ~upsert) =>
        /\ pc = "raised"
        /\ error = <<ConflictError(calls[1].resp.id)>>
        /\ Len(calls) = 1
        /\ result = <<>>

C4_Witness ==
    /\ ResolvedMatch
    /\ ~upsert
    /\ pc = "raised"
    /\ Len(app.object_types) >= 1
    /\ Len(app.file_uploads) >= 1

\* C5: when the lookup finds the application and upsert is true, push emits
\* exactly one warning, naming the existing id, before the update call;
\* it issues exactly one update call, against that id and with the full
\* payload, and no create call; the existing id is the application id of
\* every later call and of the PushResult.
C5_WarnThenUpdate ==
    (ResolvedMatch /\ upsert) =>
        /\ Len(warned) = 1
        /\ warned[1].id = calls[1].resp.id
        /\ \A i \in CallsOf({"update_application"}) : warned[1].after < i
        /\ NumCalls("create_application") = 0
        /\ NumCalls("update_application") <= 1
        /\ pc # "update_application" =>
              /\ NumCalls("update_application") = 1
              /\ calls[2].op = "update_application"
              /\ calls[2].app_id = calls[1].resp.id
              /\ calls[2].payload = ToApplicationPayload(app)
        /\ app_id = calls[1].resp.id
        /\ \A i \in CallsOf(ObjectTypeOps \cup {"upload_file"}) :
              calls[i].app_id = calls[1].resp.id
        /\ pc = "returned" => result[1].application_id = calls[1].resp.id

C5_Witness ==
    /\ ResolvedMatch
    /\ upsert
    /\ pc = "returned"
    /\ Len(warned) = 1
    /\ NumCalls("update_application") = 1
    /\ NumCalls("upload_file") >= 1

\* The calls of one kind made for the object type of the get at position i.
MutationsFor(i, op) ==
    {j \in CallsOf({op}) : calls[j].ot_id = calls[i].ot_id}

\* The get at position i is answered and push has made its next call or
\* ended.
Reconciled(i) == i < Len(calls) \/ pc \in {"returned", "raised", "upload_file"}

\* C6: for every object type, whatever happened to the others: when its get
\* returns a value an update call and no add call is issued for it; when
\* its get fails with NotFound an add call and no update call is issued
\* for it.
C6_GetRoutesUpdateOrAdd ==
    \A i \in CallsOf({"get_object_type"}) :
        /\ calls[i].err = "none" =>
              /\ MutationsFor(i, "add_object_type") = {}
              /\ Reconciled(i) => MutationsFor(i, "update_object_type") # {}
        /\ calls[i].err = "IGANotFoundError" =>
              /\ MutationsFor(i, "update_object_type") = {}
              /\ Reconciled(i) => MutationsFor(i, "add_object_type") # {}

\* The upload calls push made, in the order it made them.
IsUpload(c) == c.op = "upload_file"

UploadCalls == SelectSeq(calls, IsUpload)

\* C7: push issues the upload calls in registration order, the k-th with
\* the path and the object-type id of the k-th registered upload; a push
\* that returns has issued one call per registered upload, and the k-th
\* entry of PushResult.upload_responses is the response of the k-th call.
C7_UploadsInRegistrationOrder ==
    /\ Len(UploadCalls) <= Len(app.file_uploads)
    /\ \A k \in 1..Len(UploadCalls) :
          /\ UploadCalls[k].file_path = app.file_uploads[k].file_path
          /\ UploadCalls[k].ot_id = app.file_uploads[k].object_type
    /\ \A k \in 1..Len(upload_responses) :
          upload_responses[k] = UploadCalls[k].resp
    /\ pc = "returned" =>
          /\ Len(UploadCalls) = Len(app.file_uploads)
          /\ Len(result[1].upload_responses) = Len(app.file_uploads)
          /\ \A k \in 1..Len(app.file_uploads) :
                result[1].upload_responses[k] = UploadCalls[k].resp

\* Two different files were uploaded and push returned.
C7_Witness ==
    /\ pc = "returned"
    /\ Len(app.file_uploads) = 2
    /\ app.file_uploads[1] # app.file_uploads[2]
    /\ Len(result[1].upload_responses) = 2

\* C8: a failed call after the lookup (the create or update of the
\* application, a get of an object type that fails with anything but
\* NotFound, an update or add of an object type, an upload) is the last
\* call push makes: push has raised that very error and returned no
\* PushResult.
C8_FailureAborts ==
    \A i \in 2..Len(calls) :
        (/\ calls[i].err # "none"
         /\ ~(calls[i].op = "get_object_type" /\ calls[i].err = "IGANotFoundError"))
        => /\ i = Len(calls)
           /\ pc = "raised"
           /\ error = <<RemoteError(calls[i].err, i)>>
           /\ result = <<>>

\* The step of the push state machine a call belongs to.
Step(c) ==
    CASE c.op = "find_application_by_name" -> 1
      [] c.op \in {"create_application", "update_application"} -> 2
      [] c.op \in ObjectTypeOps -> 3
      [] OTHER -> 4

\* The position of an object-type id in the model.
TypeIndex(id) ==
    CHOOSE k \in 1..Len(app.object_types) : app.object_types[k].id = id

\* The application id once step 2 is done: the id of the create response,
\* or the id the update was sent to.
KnownAppId ==
    IF calls[2].op = "create_application" THEN calls[2].resp.id
    ELSE calls[2].app_id

CeilDiv(n, p) == (n + p - 1) \div p

\* A call that started at offset 0 without a page ceiling, against an
\* endpoint that reports its true number of results, has returned.
FaithfulCallReturned ==
    /\ page_pc = "returned"
    /\ requests[1] = 0
    /\ max_pages = 0
    /\ server.has_total
    /\ server.total = server.n

\* C10 as stated: such a call has issued exactly ceil(N/P) page requests
\* and returned exactly the N results.
C10_CeilRequests ==
    FaithfulCallReturned =>
        /\ Len(requests) = CeilDiv(server.n, page_size)
        /\ Len(all_results) = server.n

\* C10: such a call has issued exactly ceil(N/P) page requests, and one
\* request when N = 0, and returned exactly the N results, each once and in
\* the endpoint's order.
C10_CeilRequestsOrOne ==
    FaithfulCallReturned =>
        /\ Len(requests) = IF server.n = 0 THEN 1
                           ELSE CeilDiv(server.n, page_size)
        /\ Len(all_results) = server.n
        /\ \A i \in 1..server.n : all_results[i] = i

\* Five results were fetched in pages of two: three requests.
C10_Witness ==
    /\ FaithfulCallReturned
    /\ server.n = 5
    /\ page_size = 2
    /\ Len(requests) = 3

(***************************************************************************)
(* The paginated list call: when it goes on and when it stops              *)
(***************************************************************************)
\* A step that is one page request whose GET succeeded.
IsPage ==
    /\ page_pc = "loop"
    /\ Len(requests') = Len(requests) + 1
    /\ page_pc' # "raised"

\* The total count the page just received reports; a body without
\* totalCount counts as reporting 0.
ReportedTotal == IF server.has_total THEN server.total ELSE 0

\* C11: after a page the paginator issues a further page request only if
\* the page was non-empty, the accumulator is still shorter than the
\* reported total count and the maximum-pages ceiling, if one is set, is
\* not reached; as soon as one of the three fails it stops and returns
\* the accumulator, and nothing else stops it.
C11_ContinuesIffThreeConditions ==
    [][IsPage =>
        LET nonEmpty == Len(all_results') > Len(all_results)
            below == Len(all_results') < ReportedTotal
            underCeiling == max_pages = 0 \/ pages_fetched' < max_pages
        IN  IF nonEmpty /\ below /\ underCeiling
            THEN /\ page_pc' = "loop"
                 /\ offset' = offset + page_size
            ELSE /\ page_pc' = "returned"
                 /\ offset' = offset]_vars

\* A call that went on after its first page and then stopped at the
\* ceiling alone: the last page was non-empty and the total not reached.
C11_Witness ==
    /\ page_pc = "returned"
    /\ max_pages # 0
    /\ Len(requests) = max_pages
    /\ Len(requests) >= 2
    /\ Len(all_results) < ReportedTotal
    /\ Len(all_results) = Len(requests) * page_size

\* The pages the server holds at the offsets requested so far, joined.
RECURSIVE PagesJoined(_)
PagesJoined(k) ==
    IF k = 0 THEN <<>>
    ELSE PagesJoined(k - 1) \o PageOf(server, requests[k], page_size)

\* C12: with a maximum-pages ceiling m set, a paginated list call issues
\* at most m page requests, and when the m-th page is received it returns
\* the results of those pages, a partial list, without raising.
C12_CeilingBoundsRequests ==
    (page_pc # "idle" /\ max_pages # 0) =>
        /\ Len(requests) <= max_pages
        /\ (Len(requests) = max_pages /\ page_pc # "raised") =>
            /\ page_pc = "returned"
            /\ all_results = PagesJoined(max_pages)

\* A call stopped by a ceiling of two pages while the server holds more.
C12_Witness ==
    /\ page_pc = "returned"
    /\ max_pages = 2
    /\ Len(requests) = 2
    /\ page_size = 1
    /\ Len(all_results) = 2
    /\ server.n > requests[2] + 1
    /\ server.total > 2
    /\ server.has_total

(***************************************************************************)
(* The gateway: retries and response normalisation                         *)
(***************************************************************************)
\* What a request met is transient: a connection error or one of the
\* statuses 429, 500, 502, 503, 504.
Transient(o) ==
    \/ o.transport = "connection_error"
    \/ o.status \in {429, 500, 502, 503, 504}

AllTransient == \A i \in 1..Len(gw_attempts) : Transient(gw_attempts[i])

Ended == gw_pc \in {"returned", "raised"}

\* C13 as stated: for each of GET, POST, PUT and DELETE, when the attempts
\* of one logical call keep meeting a status in {429, 500, 502, 503, 504}
\* or a connection error, the gateway sends at most 3 requests in total,
\* the initial attempt included, before the call fails.
C13_AtMostThreeRequests ==
    AllTransient => Len(gw_attempts) <= 3

\* C13 amended: under the same condition the gateway sends at most 4
\* requests in total, the initial attempt and 3 retries; it sends again
\* after each of the first three and the call fails, with a ClientError,
\* exactly when the fourth is transient too.
C13_AtMostFourRequests ==
    (AllTransient /\ Len(gw_attempts) >= 1) =>
        /\ gw_method \in {"GET", "POST", "PUT", "DELETE"}
        /\ Len(gw_attempts) <= 4
        /\ Len(gw_attempts) < 4 => gw_pc = "sending"
        /\ Len(gw_attempts) = 4 =>
            /\ gw_pc = "raised"
            /\ gw_outcome.kind = "IGAClientError"

\* A POST that met 503, a connection error, 429 and 503 and then failed.
C13_Witness ==
    /\ gw_pc = "raised"
    /\ gw_method = "POST"
    /\ Len(gw_attempts) = 4
    /\ gw_attempts[1].status = 503
    /\ gw_attempts[2].transport = "connection_error"
    /\ gw_attempts[3].status = 429
    /\ gw_attempts[4].status = 503

\* C14: a logical call whose first response has a 4xx status other than
\* 429 fails at once: exactly one request is sent, no retry is attempted,
\* and the call raises with that status.
C14_ClientErrorNotRetried ==
    (/\ Len(gw_attempts) >= 1
     /\ gw_attempts[1].transport = "response"
     /\ gw_attempts[1].status \in (400..499) \ {429}) =>
        /\ Len(gw_attempts) = 1
        /\ gw_pc = "raised"
        /\ gw_outcome.status_code = gw_attempts[1].status
        /\ gw_outcome.kind \in {"IGAClientError", "IGANotFoundError"}

\* A PUT answered 409 once.
C14_Witness ==
    /\ gw_pc = "raised"
    /\ gw_method = "PUT"
    /\ Len(gw_attempts) = 1
    /\ gw_attempts[1].status = 409
    /\ gw_outcome.kind = "IGAClientError"
    /\ gw_outcome.status_code = 409

\* C15: response normalisation maps every final response by the first
\* matching rule: 404 gives NotFoundError whatever the body; any other
\* status >= 400 gives ClientError with that status and the message and
\* details of the server when the body is JSON that carries them, else
\* the raw text; 204 or an empty body gives the empty mapping; otherwise
\* the decoded JSON body is returned.
C15_FirstMatchingRule ==
    (Ended /\ gw_response # <<>>) =>
        LET status == gw_response[1].status
            body == gw_response[1].body
        IN  IF status = 404
            THEN /\ gw_pc = "raised"
                 /\ gw_outcome.kind = "IGANotFoundError"
            ELSE IF status >= 400
            THEN /\ gw_pc = "raised"
                 /\ gw_outcome.kind = "IGAClientError"
                 /\ gw_outcome.status_code = status
                 /\ gw_outcome.message =
                        IF body = "json_message" THEN "message"
                        ELSE IF body = "json_error" THEN "error"
                        ELSE "text"
                 /\ gw_outcome.details =
                        IF body = "json_message" THEN "details"
                        ELSE "empty_list"
            ELSE IF status = 204 \/ body = "empty"
            THEN /\ gw_pc = "returned"
                 /\ gw_outcome.value = "empty_mapping"
            ELSE /\ gw_pc = "returned"
                 /\ gw_outcome.value = body

\* C16: every logical gateway call ends by returning a decoded body or by
\* failing with one of the typed errors AuthError, NotFoundError,
\* ClientError, whatever the transport, the status and the body were.
C16_ReturnsOrTypedError ==
    Ended =>
        \/ gw_pc = "returned" /\ gw_outcome.kind = "returned"
        \/ /\ gw_pc = "raised"
           /\ gw_outcome.kind \in {"IGAAuthError", "IGANotFoundError",
                                   "IGAClientError"}

(***************************************************************************)
(* URL construction                                                        *)
(***************************************************************************)
\* The path is rooted under the prefix: it is /iga or goes on below it.
RootedUnderPrefix(path) ==
    \/ path = <<"/", "i", "g", "a">>
    \/ StartsWith(path, <<"/", "i", "g", "a", "/">>)

\* The origin without the slashes at its end.
StrippedOrigin ==
    CHOOSE b \in {SubSeq(url_origin, 1, k) : k \in 0..Len(url_origin)} :
        /\ b = <<>> \/ b[Len(b)] # "/"
        /\ \A i \in (Len(b) + 1)..Len(url_origin) : url_origin[i] = "/"

\* C17: for every endpoint path a missing leading slash is added, the
\* prefix /iga is prepended exactly once when the path is not already
\* rooted under the prefix and not at all when it is, rewriting a
\* rewritten path changes nothing, and the URL is the configured origin
\* without its trailing slash followed by the rewritten path.
C17_PrefixOnceUnlessRooted ==
    url # <<>> =>
        LET slashed == IF url_path # <<>> /\ url_path[1] = "/" THEN url_path
                       ELSE <<"/">> \o url_path
            rewritten == IF RootedUnderPrefix(slashed) THEN slashed
                         ELSE <<"/", "i", "g", "a">> \o slashed
        IN  /\ url = StrippedOrigin \o rewritten
            /\ RewritePath(rewritten) = rewritten

(***************************************************************************)
(* The application model: what its builder methods keep true               *)
(***************************************************************************)
\* A step that is one call of the builder method op on the model.
IsBuilderCall(op) ==
    /\ pc = "idle"
    /\ pc' = "idle"
    /\ lastCall'.op = op

ValueErrorRaised == error' = <<[kind |-> "ValueError", call |-> 0, id |-> None]>>

\* C18: adding an object type whose id is already in the model fails with
\* a configuration error (ValueError) and leaves the model as it was, the
\* first definition, the set of object types and the registered uploads;
\* so object-type ids are unique in every reachable state.
C18_DuplicateRejected ==
    /\ [](\A i, j \in 1..Len(app.object_types) :
            app.object_types[i].id = app.object_types[j].id => i = j)
    /\ [][(IsBuilderCall("add_object_type")
           /\ \E i \in 1..Len(app.object_types) :
                 app.object_types[i].id = lastCall'.object_type) =>
              /\ ValueErrorRaised
              /\ app'.object_types = app.object_types
              /\ app'.file_uploads = app.file_uploads
              /\ app' = app]_vars

\* A second add_object_type("__ACCOUNT__") was refused on a model that
\* holds two object types and an upload.
C18_Witness ==
    /\ pc = "idle"
    /\ lastCall = [op |-> "add_object_type", object_type |-> "__ACCOUNT__"]
    /\ error = <<[kind |-> "ValueError", call |-> 0, id |-> None]>>
    /\ Len(app.object_types) = 2
    /\ app.object_types[1].id = "__ACCOUNT__"
    /\ app.object_types[1].type = "account"
    /\ Len(app.file_uploads) = 1

\* C19: in every reachable state of an application model every registered
\* file upload names an object-type id defined in the model, and
\* add_file_upload with an undefined id fails with a configuration error
\* (ValueError) and registers nothing.
C19_UploadsNameDefinedTypes ==
    /\ [](\A u \in 1..Len(app.file_uploads) :
            \E i \in 1..Len(app.object_types) :
                app.object_types[i].id = app.file_uploads[u].object_type)
    /\ [][(IsBuilderCall("add_file_upload")
           /\ \A i \in 1..Len(app.object_types) :
                 app.object_types[i].id # lastCall'.object_type) =>
              /\ ValueErrorRaised
              /\ app'.file_uploads = app.file_uploads
              /\ app' = app]_vars

\* add_file_upload for "Roles" was refused on a model that defines only
\* "__ACCOUNT__" and already holds an upload for it.
C19_Witness ==
    /\ pc = "idle"
    /\ lastCall = [op |-> "add_file_upload", object_type |-> "Roles"]
    /\ error = <<[kind |-> "ValueError", call |-> 0, id |-> None]>>
    /\ Len(app.object_types) = 1
    /\ app.object_types[1].id = "__ACCOUNT__"
    /\ Len(app.file_uploads) = 1

(***************************************************************************)
(* The application payload                                                 *)
(***************************************************************************)
\* A step that is one call of to_application_payload.
IsBuildPayload == last_payload' # last_payload

HasKey(k) == k \in DOMAIN last_payload'[1]

\* C20 as stated: in the application payload each of the keys ownerIds,
\* icon and objectTypes is present exactly when the owner list, the icon,
\* the object-type mapping of the model is non-empty.
C20_OptionalKeysIffPart ==
    [][IsBuildPayload =>
        /\ HasKey("ownerIds") <=> app.owner_ids # <<>>
        /\ HasKey("icon") <=> app.icon # ""
        /\ HasKey("objectTypes") <=> app.object_types # <<>>]_vars

\* C20 amended: each of the three keys is present exactly when the part of
\* the model is non-empty or the extra fields of the model hold that key.
C20_OptionalKeysIffPartOrExtra ==
    [][IsBuildPayload =>
        /\ HasKey("ownerIds") <=>
              (app.owner_ids # <<>> \/ "ownerIds" \in DOMAIN app.extra_fields)
        /\ HasKey("icon") <=>
              (app.icon # "" \/ "icon" \in DOMAIN app.extra_fields)
        /\ HasKey("objectTypes") <=>
              (app.object_types # <<>>
               \/ "objectTypes" \in DOMAIN app.extra_fields)]_vars

\* The payload of a model with owners, an icon and one object type and no
\* extra fields: all three keys.
C20_Witness ==
    /\ last_payload # <<>>
    /\ app.owner_ids = <<"u1">>
    /\ app.icon = "x"
    /\ Len(app.object_types) = 1
    /\ DOMAIN app.extra_fields = {}
    /\ {"ownerIds", "icon", "objectTypes"} \subseteq DOMAIN last_payload[1]
    /\ last_payload[1].ownerIds = <<"u1">>

\* C21 as stated: for every application model, whatever extra fields the
\* caller gave, the payload has isDisconnected = true, authoritative =
\* false and datasourceId = "disconnected".
C21_FixedFieldsAlways ==
    last_payload # <<>> =>
        /\ last_payload[1].isDisconnected = TRUE
        /\ last_payload[1].authoritative = FALSE
        /\ last_payload[1].datasourceId = "disconnected"

\* C21 amended: each of the three fixed fields has its fixed value in the
\* payload of every model whose extra fields do not hold that key.
C21_FixedFieldsUnlessExtra ==
    last_payload # <<>> =>
        /\ "isDisconnected" \notin DOMAIN app.extra_fields =>
              last_payload[1].isDisconnected = TRUE
        /\ "authoritative" \notin DOMAIN app.extra_fields =>
              last_payload[1].authoritative = FALSE
        /\ "datasourceId" \notin DOMAIN app.extra_fields =>
              last_payload[1].datasourceId = "disconnected"

\* The payload of a model built with an extra field that is no key of the
\* payload: the three fixed fields stand.
C21_Witness ==
    /\ last_payload # <<>>
    /\ DOMAIN app.extra_fields = {"custom_field"}
    /\ last_payload[1].isDisconnected = TRUE
    /\ last_payload[1].authoritative = FALSE
    /\ last_payload[1].datasourceId = "disconnected"
    /\ last_payload[1].custom_field = "custom_value"

\* C22: the extra fields are merged into the payload last and the last
\* write wins: every extra field key is in the payload with the caller's
\* value, also when the payload had set that key already.
C22_ExtraFieldsWin ==
    last_payload # <<>> =>
        \A k \in DOMAIN app.extra_fields :
            /\ k \in DOMAIN last_payload[1]
            /\ last_payload[1][k] = app.extra_fields[k]

\* The payload of a model with owner u1 and the extra field ownerIds = u2:
\* the payload names u2.
C22_Witness ==
    /\ last_payload # <<>>
    /\ app.owner_ids = <<"u1">>
    /\ DOMAIN app.extra_fields = {"ownerIds"}
    /\ last_payload[1].ownerIds = <<"u2">>

(***************************************************************************)
(* The token cache: failed grants                                          *)
(***************************************************************************)
\* C23: when the grant request fails at transport level or the token
\* endpoint answers with an HTTP error status, the read of the token fails
\* with an AuthError that wraps the underlying cause, and returns no token.
C23_GrantFailureIsAuthError ==
    lastAccess.response \in {"transport_error", "http_error"} =>
        /\ lastAccess.grants = 1
        /\ lastAccess.outcome = "IGAAuthError"
        /\ lastAccess.cause = lastAccess.response
        /\ lastAccess.ret = "None"

\* A refresh of a token held and gone stale met an HTTP error status.
C23_Witness ==
    /\ lastAccess.response = "http_error"
    /\ lastAccess.outcome = "IGAAuthError"
    /\ access_token # "None"
    /\ now >= expires_at - 30

\* C24: when the token endpoint answers successfully but with a body that
\* is not JSON, or JSON without access_token, the read of the token fails
\* with an AuthError, the kind a transport failure gives.
C24_MalformedGrantIsAuthError ==
    lastAccess.response \in {"not_json", "no_access_token"} =>
        lastAccess.outcome = "IGAAuthError"

(***************************************************************************)
(* Local misuse and the frame of push                                      *)
(***************************************************************************)
\* The last builder call was refused.
BuilderMisuse ==
    /\ pc = "idle"
    /\ lastCall.op \in {"add_object_type", "add_file_upload"}
    /\ error # <<>>

\* Push found the application and upsert was false.
ConflictMisuse ==
    /\ pc = "raised"
    /\ ~upsert
    /\ Len(calls) = 1
    /\ calls[1].err = "none"
    /\ existing # <<>>

\* C25 as stated: a duplicate object-type id, an upload for an undefined
\* object type and a push onto an existing application without upsert are
\* reported with one error kind, ConfigurationError, which is none of
\* ClientError, NotFoundError, AuthError.
C25_MisuseKindApart ==
    (BuilderMisuse \/ ConflictMisuse) =>
        /\ error # <<>>
        /\ error[1].kind \notin {"IGAClientError", "IGANotFoundError",
                                  "IGAAuthError"}

\* C25 amended: the two refused builder calls are reported as ValueError,
\* which is none of the three; the conflict of a push without upsert is
\* reported as a ClientError raised by no remote call.
C25_ValueErrorAndClientError ==
    /\ BuilderMisuse => error = <<[kind |-> "ValueError", call |-> 0,
                                   id |-> "None"]>>
    /\ ConflictMisuse =>
          /\ error # <<>>
          /\ error[1].kind = "IGAClientError"
          /\ error[1].call = 0
          /\ error[1].id = existing[1].id

\* A push without upsert found the application and raised.
C25_Witness ==
    /\ ConflictMisuse
    /\ error # <<>>
    /\ error[1].kind = "IGAClientError"
    /\ Len(app.object_types) = 1

\* C27: push never mutates the application model: after every step of a
\* push, so when it returns or fails on any path, the name, description,
\* owner list, icon, extra fields, object types and file uploads of the
\* model are what they were before the call.
C27_PushLeavesModel ==
    [][(pc # "idle" \/ pc' # "idle") =>
          /\ app'.name = app.name
          /\ app'.description = app.description
          /\ app'.owner_ids = app.owner_ids
          /\ app'.icon = app.icon
          /\ app'.extra_fields = app.extra_fields
          /\ app'.object_types = app.object_types
          /\ app'.file_uploads = app.file_uploads]_vars

\* A push that returned after creating the application, two object types
\* and two uploads, the model still holding them.
C27_Witness ==
    /\ pc = "returned"
    /\ Len(app.object_types) = 2
    /\ Len(app.file_uploads) = 2
    /\ Len(calls) >= 6
    /\ result # <<>>

(***************************************************************************)
(* Two callers and one stale token                                         *)
(***************************************************************************)
\* C26: with two concurrent callers on one instance the refresh is not
\* serialized: a caller's test finds the token stale exactly when the
\* stored token is stale, whatever the other caller is doing, and every
\* caller that found it stale sends its own grant request; so both may
\* find it stale before either stores a token, and two grant requests go
\* out for one expiry.
C26_RefreshNotSerialized ==
    /\ [](grant_requests =
            Cardinality({c \in {"c1", "c2"} :
                callers[c].fetched}))
    /\ [][\A c \in {"c1", "c2"} :
            (callers[c].pc = "idle" /\ callers'[c].pc # "idle") =>
                (callers'[c].pc = "fetching" <=>
                    (access_token = "None" \/ now >= expires_at - 30))]_vars

\* Both callers hold a grant response and neither has stored it: two
\* grant requests for the one stale token.
C26_Witness ==
    /\ callers["c1"].pc = "storing"
    /\ callers["c2"].pc = "storing"
    /\ callers["c1"].resp.token = "tokB"
    /\ callers["c2"].resp.token = "tokB"
    /\ grant_requests = 2
    /\ access_token = "tokA"
    /\ expires_at = 30

(***************************************************************************)
(* The gateway: headers, and the end of a call that is retried throughout  *)
(***************************************************************************)
\* C28: every request the gateway sends carries Authorization: Bearer
\* with the token the token provider returned for the call and Accept:
\* application/json; Content-Type: application/json is attached unless
\* the call is a multipart file upload, and absent exactly then.
C28_HeadersOfEveryRequest ==
    Len(gw_attempts) >= 1 =>
        /\ gw_token \in {"tokA", "tokB"}
        /\ {"Authorization", "Accept"} \subseteq DOMAIN gw_headers
        /\ gw_headers["Authorization"] = <<"Bearer", gw_token>>
        /\ gw_headers["Accept"] = "application/json"
        /\ "Content-Type" \notin DOMAIN gw_headers <=> gw_files
        /\ "Content-Type" \in DOMAIN gw_headers =>
              gw_headers["Content-Type"] = "application/json"

\* A multipart upload sent twice with the token tokB.
C28_Witness ==
    /\ gw_method = "POST"
    /\ gw_files
    /\ gw_token = "tokB"
    /\ Len(gw_attempts) = 2
    /\ DOMAIN gw_headers = {"Authorization", "Accept"}

\* C29: a logical call whose attempts all meet the same retryable status
\* s ends with a ClientError that carries the status code s and the
\* message of the server, not with a transport error without status.
C29_ExhaustedCarriesStatus ==
    (/\ gw_pc \in {"returned", "raised"}
     /\ Len(gw_attempts) >= 1
     /\ gw_attempts[1].status \in {429, 500, 502, 503, 504}
     /\ \A i \in 1..Len(gw_attempts) : gw_attempts[i] = gw_attempts[1]) =>
        /\ gw_pc = "raised"
        /\ gw_outcome.kind = "IGAClientError"
        /\ gw_outcome.status_code = gw_attempts[1].status
        /\ gw_outcome.message \in {"message", "error", "text"}

(***************************************************************************)
(* The paginated list call: what its requests carry                        *)
(***************************************************************************)
\* C30: the k-th page request carries the page size P and the offset
\* start + (k-1)*P, start being the offset the caller gave or 0 and P the
\* caller's page size or the default 50; so the offsets increase strictly,
\* and the list returned is the pages joined in request order, in which,
\* the server paging stably, no result stands twice.
C30_RequestsCarrySizeAndOffset ==
    page_pc # "idle" =>
        LET P == IF page_args.page_size # 0 THEN page_args.page_size ELSE 50
            start == page_args.offset
        IN  /\ Len(request_sizes) = Len(requests)
            /\ \A k \in 1..Len(requests) :
                  /\ request_sizes[k] = P
                  /\ requests[k] = start + (k - 1) * P
                  /\ k > 1 => requests[k] > requests[k - 1]
            /\ page_pc = "returned" =>
                  /\ all_results = PagesJoined(Len(requests))
                  /\ \A i, j \in 1..Len(all_results) :
                        all_results[i] = all_results[j] => i = j

\* A call with page size 2 from offset 1 that made three requests.
C30_Witness ==
    /\ page_pc = "returned"
    /\ page_args = [page_size |-> 2, offset |-> 1]
    /\ requests = <<1, 3, 5>>
    /\ request_sizes = <<2, 2, 2>>
    /\ Len(all_results) = 4

(***************************************************************************)
(* The token cache: what changes the stored token                          *)
(***************************************************************************)
\* C31: the stored token and its expiry change only by a successful
\* grant: an access while the token is not stale leaves both as they are,
\* so does a grant that fails with a transport or HTTP error, and the
\* next access after a failed refresh finds the token stale again and
\* sends a new grant request.
C31_StateChangesOnlyOnGrant ==
    [][/\ (access_token' # access_token \/ expires_at' # expires_at) =>
              /\ IsAccess
              /\ lastAccess'.grants = 1
              /\ lastAccess'.response = "ok"
              /\ lastAccess'.outcome = "returned"
       /\ (IsAccess /\ access_token # "None" /\ now < expires_at - 30) =>
              /\ access_token' = access_token
              /\ expires_at' = expires_at
       /\ (IsAccess /\ lastAccess'.response \in {"transport_error", "http_error"}) =>
              /\ access_token' = access_token
              /\ expires_at' = expires_at
       /\ (IsAccess /\ lastAccess.response \in {"transport_error", "http_error"}) =>
              lastAccess'.grants = 1]_vars

\* A refresh of a held token has failed on a transport error at a second or
\* later access: the old token is still stored although it is stale.
C31_Witness ==
    /\ lastAccess.response = "transport_error"
    /\ lastAccess.seq = FALSE
    /\ lastAccess.grants = 1
    /\ access_token = "tokA"
    /\ now >= expires_at - 30
    /\ now >= 2

InitGrant ==
    /\ GrantInit
    /\ RepeatIdle
    /\ PushInit
    /\ PageIdle
    /\ GatewayIdle
    /\ UrlIdle
    /\ PayloadIdle
    /\ RaceIdle
    /\ app = NewApplication(CHOOSE args \in CtorArgs : args.icon = "")

NextGrant == FetchToken

SpecGrant == InitGrant /\ [][NextGrant]_vars

(***************************************************************************)
(* The grant request and what a successful grant stores                    *)
(***************************************************************************)
\* C32: after a successful grant whose response is read at time t, the
\* stored access_token is the access_token of the response and expires_at
\* is t + expires_in, with expires_in taken as 3600 when the response omits
\* it; the body of every grant request has grant_type=client_credentials,
\* client_id and client_secret, and has scope exactly when scopes were
\* configured (a scope string that is not empty).
C32_GrantStoresAndSends ==
    /\ grant_response.kind = "ok" =>
          /\ access_token = grant_response.token
          /\ expires_at = now + (IF grant_response.has_expires_in
                                 THEN grant_response.expires_in ELSE 3600)
    /\ grant_response # NoGrant =>
          /\ {"grant_type", "client_id", "client_secret"} \subseteq DOMAIN grant_data
          /\ grant_data["grant_type"] = "client_credentials"
          /\ grant_data["client_id"] = ClientId
          /\ grant_data["client_secret"] = ClientSecret
          /\ ("scope" \in DOMAIN grant_data) <=> (scopes = "fr:idm:*")
          /\ "scope" \in DOMAIN grant_data => grant_data["scope"] = scopes

\* A grant at time 2 whose response omits expires_in, on an instance
\* without scopes: the token is stored with the default lifetime.
C32_Witness ==
    /\ grant_response.kind = "ok"
    /\ ~grant_response.has_expires_in
    /\ now = 2
    /\ expires_at = 3602
    /\ scopes = ""
    /\ "scope" \notin DOMAIN grant_data

(***************************************************************************)
(* What a successful push returns                                          *)
(***************************************************************************)
\* The successful update or add calls push made for an object-type id.
MutationsOf(id) ==
    {j \in CallsOf({"update_object_type", "add_object_type"}) :
        calls[j].ot_id = id /\ calls[j].err = "none"}

\* C33: when push returns, object_type_responses has exactly the
\* object-type ids of the model as its keys, each mapped to the response of
\* the update or add call for that type (not of its get),
\* upload_responses has one entry per registered upload, the k-th being
\* the response of the k-th upload call, and application_response is the
\* response of the create or update call.
C33_ResultCarriesResponses ==
    pc = "returned" =>
        LET r == result[1] IN
        /\ DOMAIN r.object_type_responses = DefinedIds(app)
        /\ \A id \in DefinedIds(app) :
              /\ Cardinality(MutationsOf(id)) = 1
              /\ \A j \in MutationsOf(id) :
                    /\ r.object_type_responses[id] = calls[j].resp
                    /\ r.object_type_responses[id].call = j
        /\ Len(r.upload_responses) = Len(app.file_uploads)
        /\ Len(UploadCalls) = Len(app.file_uploads)
        /\ \A k \in 1..Len(app.file_uploads) :
              r.upload_responses[k] = UploadCalls[k].resp
        /\ calls[2].op \in {"create_application", "update_application"}
        /\ calls[2].err = "none"
        /\ r.application_response = calls[2].resp

\* A push of two object types and two uploads has returned; one type was
\* updated and the other added.
C33_Witness ==
    /\ pc = "returned"
    /\ Len(app.object_types) = 2
    /\ Len(app.file_uploads) = 2
    /\ NumCalls("update_object_type") >= 1
    /\ NumCalls("add_object_type") >= 1
    /\ DOMAIN result[1].object_type_responses = DefinedIds(app)

(***************************************************************************)
(* Mutating calls per object type                                          *)
(***************************************************************************)
\* The update and add calls push issued for an object-type id, failed ones
\* included.
MutatingCallsOf(id) ==
    {j \in CallsOf({"update_object_type", "add_object_type"}) :
        calls[j].ot_id = id}

\* C34: during push at most one mutating call (update or add) is issued per
\* object type, and an add call is issued for a type only when the get for
\* that type failed with NotFound: the call just before an add is that get.
C34_OneMutationPerType ==
    /\ \A id \in DefinedIds(app) : Cardinality(MutatingCallsOf(id)) <= 1
    /\ \A j \in CallsOf({"add_object_type"}) :
          /\ calls[j - 1].op = "get_object_type"
          /\ calls[j - 1].ot_id = calls[j].ot_id
          /\ calls[j - 1].err = "IGANotFoundError"

\* C34 apart from an update that fails with NotFound.
C34_UnlessUpdateNotFound ==
    (\A j \in CallsOf({"update_object_type"}) : calls[j].err # "IGANotFoundError")
        => C34_OneMutationPerType

InitUpsert ==
    /\ \E args \in CtorArgs : app = NewApplication(args)
    /\ PushInit
    /\ RepeatIdle
    /\ TokenInit
    /\ PageIdle
    /\ GatewayIdle
    /\ UrlIdle
    /\ PayloadIdle
    /\ RaceIdle
    /\ GrantIdle

NextUpsert ==
    \/ BuildObjectType
    \/ BuildFileUpload
    \/ UpsertResolve
    \/ UpsertCreateApplication
    \/ UpsertUpdateApplication
    \/ UpsertGetObjectType
    \/ UpsertUpdateObjectType
    \/ UpsertAddObjectType
    \/ UpsertUploadFile
    \/ PushAgain

SpecUpsert == InitUpsert /\ [][NextUpsert]_vars

(***************************************************************************)
(* Pushing the same model twice                                            *)
(***************************************************************************)
\* The positions of the lookups in the log: one per push.
Lookups == CallsOf({"find_application_by_name"})

\* The calls of the second push.
SecondPush ==
    IF Cardinality(Lookups) < 2 THEN {}
    ELSE {j \in 1..Len(calls) : \A f \in Lookups : j > f}

\* C35: the same model is pushed twice in sequence with upsert allowed
\* against a remote that stores what it is sent and has no application of
\* that name at first. The first push creates and the second updates: the
\* second push issues no create call and no add-object-type call and
\* updates every object type, both pushes return the same application
\* id, and the remote ends with one application of that name.
C35_SecondPushUpdates ==
    /\ Len(calls) >= 2 => calls[2].op = "create_application"
    /\ \A j \in SecondPush :
          calls[j].op \notin {"create_application", "add_object_type"}
    /\ SecondPush # {} => \E j \in SecondPush : calls[j].op = "update_application"
    /\ (pc = "returned" /\ Len(pushed) = 1) =>
          /\ result[1].application_id = pushed[1].application_id
          /\ \A id \in DefinedIds(app) :
                \E j \in SecondPush : /\ calls[j].op = "update_object_type"
                                      /\ calls[j].ot_id = id
                                      /\ calls[j].err = "none"
          /\ Cardinality(StoredApplications(calls)) = 1
          /\ NumCalls("create_application") = 1

\* The second push of a model with two object types has returned; the
\* first push added one of them.
C35_Witness ==
    /\ pc = "returned"
    /\ Len(pushed) = 1
    /\ Len(app.object_types) = 2
    /\ NumCalls("add_object_type") >= 1
    /\ NumCalls("update_application") = 1
    /\ result[1].application_id = "id-2"

(***************************************************************************)
(* Termination of a paginated list call                                    *)
(***************************************************************************)
\* A page request is answered or fails: the session waits for a response
\* no longer than the timeout the client passes with every request, so an
\* iteration under way is carried out.
PageFairness == WF_vars(FetchPage \/ FetchPageFails)

SpecPageFair == SpecPage /\ PageFairness

\* The page requests that meet results when the call starts at offset
\* start with pages of size results: the offsets start, start + size, ...
\* below n.
PagesFrom(n, start, size) ==
    IF start >= n THEN 0 ELSE CeilDiv(n - start, size)

\* C36: a paginated list call without a page ceiling terminates, for every
\* start offset and page size, whatever totalCount the server reports:
\* the call under way ends (it returns or an error leaves it), and it
\* never sends more requests than the pages that hold results plus one.
C36_Terminates ==
    /\ []((page_pc # "idle" /\ max_pages = 0) =>
            Len(requests) <= PagesFrom(server.n, page_args.offset, page_size) + 1)
    /\ (page_pc = "loop" /\ max_pages = 0) ~> (page_pc \in {"returned", "raised"})

\* A call without a ceiling has ended after reading past the end of a
\* server that reports more results than it holds.
C36_Witness ==
    /\ page_pc = "returned"
    /\ max_pages = 0
    /\ server.has_total
    /\ server.total > server.n
    /\ server.n = 5
    /\ page_size = 2
    /\ Len(requests) = 4
    /\ Len(all_results) = 5

(***************************************************************************)
(* A list endpoint that reports no totalCount                              *)
(***************************************************************************)
\* A call from offset 0 without a page ceiling has returned.
FullCallReturned ==
    /\ page_pc = "returned"
    /\ max_pages = 0
    /\ page_args.offset = 0

\* C37: a paginated list call keeps requesting pages until the results of
\* the server are exhausted even when the page responses carry no
\* totalCount: such a call, from offset 0 and without a ceiling, returns
\* all the results the server holds.
C37_MissingTotalReturnsAll ==
    (FullCallReturned /\ ~server.has_total) =>
        /\ Len(all_results) = server.n
        /\ \A i \in 1..server.n : all_results[i] = i

\* The same call against a server that reports a totalCount no smaller
\* than the number of results it holds.
C37_ReportedTotalReturnsAll ==
    (FullCallReturned /\ server.has_total /\ server.total >= server.n) =>
        /\ Len(all_results) = server.n
        /\ \A i \in 1..server.n : all_results[i] = i

(***************************************************************************)
(* The token is obtained before the request is sent                        *)
(***************************************************************************)
\* The grant request of the call did not yield a token.
GrantFailed == gw_grants # <<>> /\ gw_grants[Len(gw_grants)] # "ok"

\* The grant request of the call failed: the token endpoint could not be
\* reached or answered with an error status.
GrantRequestFailed ==
    gw_grants # <<>> /\ gw_grants[Len(gw_grants)] \in {"transport_error", "http_error"}

====
